---- MODULE Spec2Model ----
(***************************************************************************)
(* A model of the test-generation engine of testpilot: prompt assembly,    *)
(* the prompt refiners, the test-result collector, the worklist loop of    *)
(* TestGenerator.generateAndValidateTests and the driver runExperiment.    *)
(*                                                                         *)
(* JavaScript strings are sequences of one-character strings, so that the  *)
(* string functions of the source (split, trim, replace, closeBrackets)    *)
(* are computed character by character.                                    *)
(***************************************************************************)
EXTENDS Naturals, Integers, Sequences, FiniteSets, TLC

(***************************************************************************)
(* String literals of the source.                                          *)
(***************************************************************************)

\* promptCrafting.ts, Prompt.constructor: the template of the imports as
\* dedent gets it (strings.raw), up to the package binding.
ImportsMocha ==
    <<"\n"," "," "," "," "," "," "," "," "," "," "," "," ","l","e","t"," ",
      "m","o","c","h","a"," ","="," ","r","e","q","u","i","r","e","(","'","m",
      "o","c","h","a","'",")",";","\n"," "," "," "," "," "," "," "," "," ",
      " "," "," ","l","e","t"," ","a","s","s","e","r","t"," ","="," ","r","e",
      "q","u","i","r","e","(","'","a","s","s","e","r","t","'",")",";","\n",
      " "," "," "," "," "," "," "," "," "," "," "," ","l","e","t"," ">>

\* Prompt.constructor: between the binding and the package name.
ImportsRequire ==
    <<" ","="," ","r","e","q","u","i","r","e","(","'">>

\* Prompt.constructor: the end of the template, with the escape \n as the
\* two characters of the raw string.
ImportsEnd ==
    <<"'",")",";","\\","n">>

\* Prompt.completeTest: the stubbed suite header and test header.
StubHeaders ==
    <<"d","e","s","c","r","i","b","e","(","'","t","e","s","t"," ","s","u","i",
      "t","e","'",","," ","f","u","n","c","t","i","o","n","(",")"," ","{",
      "\n"," "," "," "," ","i","t","(","'","t","e","s","t"," ","c","a","s",
      "e","'",","," ","f","u","n","c","t","i","o","n","(","d","o","n","e",")",
      " ","{","\n">>

\* Prompt.constructor: suiteHeader before the sanitized package name.
SuiteHeaderStart ==
    <<"d","e","s","c","r","i","b","e","(","'","t","e","s","t"," ">>

\* Prompt.constructor: suiteHeader after the sanitized package name.
SuiteHeaderEnd ==
    <<"'",","," ","f","u","n","c","t","i","o","n","(",")"," ","{","\n">>

\* Prompt.constructor: testHeader before the access path.
TestHeaderStart ==
    <<" "," "," "," ","i","t","(","'","t","e","s","t"," ">>

\* Prompt.constructor: testHeader after the access path.
TestHeaderEnd ==
    <<"'",","," ","f","u","n","c","t","i","o","n","(","d","o","n","e",")"," ",
      "{","\n">>

\* RetryPrompt.assemble: the trailer before the error message.
RetryTrailerStart ==
    <<" "," "," "," ","/","/"," ","t","h","e"," ","t","e","s","t"," ","a","b",
      "o","v","e"," ","f","a","i","l","s"," ","w","i","t","h"," ","t","h","e",
      " ","f","o","l","l","o","w","i","n","g"," ","e","r","r","o","r",":",
      "\n"," "," "," "," ","/","/"," "," "," ">>

\* RetryPrompt.assemble: the trailer after the error message.
RetryTrailerEnd ==
    <<"\n"," "," "," "," ","/","/"," ","f","i","x","e","d"," ","t","e","s",
      "t",":","\n">>

\* Prompt.assembleUsageSnippets: the heading of a snippet, before its number.
UsageStart ==
    <<"/","/"," ","u","s","a","g","e"," ","#">>

\* commentOut and assembleUsageSnippets: the prefix of a commented line.
CommentPrefix ==
    <<"/","/"," ">>

\* The text the regular expression /\}\)\}\)$/ matches at the end of a source.
UglyClosers ==
    <<"}",")","}",")">>

\* Prompt.completeTest: the replacement of the final closers.
PrettyClosers ==
    <<" "," "," "," ","}",")","\n","}",")">>

\* RetryPrompt.assemble: the replacement of the final closers, and the fallback closer.
PrettyCloser ==
    <<" "," "," "," ","}",")","\n">>

\* Prompt.completeTest: " ".repeat(8).
Indent8 ==
    <<" "," "," "," "," "," "," "," ">>

\* TestGenerator.validateCompletion: the message for an empty completion.
EmptyTestMessage ==
    <<"E","m","p","t","y"," ","t","e","s","t">>

\* TestGenerator.validateCompletion: the message for an unrepairable completion.
InvalidSyntaxMessage ==
    <<"I","n","v","a","l","i","d"," ","s","y","n","t","a","x">>

\* The message of a failure reported by the validator (test/generateTests.ts, MockValidator).
TestFailedMessage ==
    <<"t","e","s","t"," ","f","a","i","l","e","d">>

(***************************************************************************)
(* Bounds of the model.                                                    *)
(***************************************************************************)

\* The longest list of temperatures a caller supplies.
MaxTemperatures == 2

\* The longest list of functions the driver is given.
MaxFunctions == 2

\* The most temperature passes of a run: the number of functions times the
\* number of temperatures.
MaxPasses == 2

\* The most completions the provider returns for one prompt.
MaxCompletions == 2

\* The number of queries the provider answers with a non-empty set; it
\* answers every later query with the empty set.
MaxAnswers == 2

\* The most calls of recordPromptInfo made on a collector on its own.
MaxCalls == 4

\* The number of Prompt objects such calls are made with.
MaxPromptObjects == 3

\* The longest text a syntax helper is called with on its own.
MaxLen == 4

(***************************************************************************)
(* JavaScript string primitives.                                           *)
(***************************************************************************)

\* The characters String.prototype.trim removes and \s matches: the white
\* space and the line terminators of ECMAScript.  Those of them that a
\* string of this module can hold are listed: space, line feed, tab,
\* carriage return, form feed, vertical tab U+000B, no-break space U+00A0,
\* ogham space mark U+1680 and zero width no-break space U+FEFF.  The
\* others (U+2000 to U+200A, U+2028, U+2029, U+202F, U+205F, U+3000) cannot
\* be written in a string of the module and occur in no text of the model.
WhiteSpace ==
    {" ", "\n", "\t", "\r", "\f", "", " ", " ", "﻿"}

\* The characters of [a-zA-Z0-9_$].
WordChars ==
    {"a","b","c","d","e","f","g","h","i","j","k","l","m","n","o","p","q","r",
     "s","t","u","v","w","x","y","z","A","B","C","D","E","F","G","H","I","J",
     "K","L","M","N","O","P","Q","R","S","T","U","V","W","X","Y","Z","0","1",
     "2","3","4","5","6","7","8","9","_","$"}

\* The decimal digits, by value + 1.
Digits == <<"0","1","2","3","4","5","6","7","8","9">>

\* String(n) for a natural number n.
RECURSIVE NumberToString(_)
NumberToString(n) ==
    IF n < 10 THEN <<Digits[n + 1]>>
    ELSE NumberToString(n \div 10) \o <<Digits[(n % 10) + 1]>>

\* s.indexOf(ch, from) with 1-based positions; 0 stands for -1.
RECURSIVE IndexOf(_, _, _)
IndexOf(s, ch, from) ==
    IF from > Len(s) THEN 0
    ELSE IF s[from] = ch THEN from
    ELSE IndexOf(s, ch, from + 1)

\* s.split("\n")
RECURSIVE SplitLines(_)
SplitLines(s) ==
    LET nl == IndexOf(s, "\n", 1)
    IN  IF nl = 0 THEN <<s>>
        ELSE <<SubSeq(s, 1, nl - 1)>> \o SplitLines(SubSeq(s, nl + 1, Len(s)))

\* lines.join(sep)
RECURSIVE Join(_, _)
Join(lines, sep) ==
    IF lines = <<>> THEN <<>>
    ELSE IF Len(lines) = 1 THEN lines[1]
    ELSE lines[1] \o sep \o Join(Tail(lines), sep)

\* s.trimStart()
RECURSIVE TrimStart(_)
TrimStart(s) ==
    IF s # <<>> /\ s[1] \in WhiteSpace THEN TrimStart(Tail(s)) ELSE s

\* s.trimEnd()
RECURSIVE TrimEnd(_)
TrimEnd(s) ==
    IF s # <<>> /\ s[Len(s)] \in WhiteSpace THEN TrimEnd(SubSeq(s, 1, Len(s) - 1))
    ELSE s

\* s.trim()
Trim(s) == TrimEnd(TrimStart(s))

(***************************************************************************)
(* dedent 0.7.0, the template tag of the imports                           *)
(***************************************************************************)

\* The number of white-space characters a line starts with, from the i-th
\* character on.
RECURSIVE LeadingWhiteSpace(_, _)
LeadingWhiteSpace(line, i) ==
    IF i <= Len(line) /\ line[i] \in WhiteSpace
    THEN 1 + LeadingWhiteSpace(line, i + 1)
    ELSE 0

\* l.match(/^(\s+)\S+/) for a line that starts with n white-space
\* characters: the length of the indentation if a character follows it; 0
\* stands for no match.
MatchedIndent(line, n) == IF n < Len(line) THEN n ELSE 0

\* mindent for the indentations matched: the least of them; 0 stands for
\* null.
LeastIndent(indents) ==
    IF indents = {} THEN 0
    ELSE CHOOSE m \in indents : \A n \in indents : m <= n

\* The forEach over the lines that computes mindent.
MinIndent(lines) ==
    LeastIndent({MatchedIndent(lines[i], LeadingWhiteSpace(lines[i], 1)) :
                    i \in DOMAIN lines} \ {0})

\* lines.map(l => l[0] === " " ? l.slice(mindent) : l)
SliceLines(lines, mindent) ==
    [i \in DOMAIN lines |->
        IF lines[i] # <<>> /\ lines[i][1] = " "
        THEN SubSeq(lines[i], mindent + 1, Len(lines[i]))
        ELSE lines[i]]

\* result.replace(/\\n/g, "\n"): every backslash followed by n becomes a
\* line break (the character after a replaced backslash is marked and
\* dropped).
ReplaceEscapedNewlines(s) ==
    SelectSeq([i \in 1..Len(s) |->
                  IF i < Len(s) /\ s[i] = "\\" /\ s[i + 1] = "n" THEN "\n"
                  ELSE IF i > 1 /\ s[i - 1] = "\\" /\ s[i] = "n" THEN ""
                  ELSE s[i]],
              LAMBDA c : c # "")

\* dedent from the split into lines on: mindent characters are cut from
\* every line that starts with a blank, the result is trimmed, and the
\* escaped line breaks are replaced.
DedentLines(lines) ==
    ReplaceEscapedNewlines(
        Trim(Join(SliceLines(lines, MinIndent(lines)), <<"\n">>)))

\* dedent, applied to the interpolated template.  (The raw strings of the
\* template of the imports hold no backslash before a line break and no
\* backtick.)
dedent(result) == DedentLines(SplitLines(result))

\* s.endsWith(suffix)
EndsWith(s, suffix) ==
    /\ Len(s) >= Len(suffix)
    /\ SubSeq(s, Len(s) - Len(suffix) + 1, Len(s)) = suffix

\* s.replace(/\}\)\}\)$/, by): the final closers of s replaced by `by`.
ReplaceFinalClosers(s, by) ==
    IF EndsWith(s, UglyClosers)
    THEN SubSeq(s, 1, Len(s) - Len(UglyClosers)) \o by
    ELSE s

\* line.replace("*", ""): the first "*" of the line removed.
RemoveFirstStar(line) ==
    LET i == IndexOf(line, "*", 1)
    IN  IF i = 0 THEN line
        ELSE SubSeq(line, 1, i - 1) \o SubSeq(line, i + 1, Len(line))

\* body.replace(/^(?=\S)/, " ".repeat(8)): a body that starts with a
\* non-whitespace character is indented; an empty body has no such position.
IndentFirstLine(body) ==
    IF body # <<>> /\ body[1] \notin WhiteSpace THEN Indent8 \o body ELSE body

(***************************************************************************)
(* exploreAPI.ts                                                           *)
(***************************************************************************)

\* sanitizePackageName: every character outside [a-zA-Z0-9_$] becomes "_".
sanitizePackageName(pkgName) ==
    [i \in 1..Len(pkgName) |->
        IF pkgName[i] \in WordChars THEN pkgName[i] ELSE "_"]

\* APIFunction.signature: the access path followed by the parameter list
\* (the functions of the model are neither constructors nor async).
FunctionSignature(f) == f.accessPath \o f.parameters

(***************************************************************************)
(* syntax.ts                                                               *)
(***************************************************************************)

\* commentOut without the removal of the trailing empty line.
commentOutEveryLine(code) ==
    LET lines == SplitLines(code)
        Commented[i \in 0..Len(lines)] ==
            IF i = 0 THEN <<>>
            ELSE Commented[i - 1] \o CommentPrefix \o lines[i] \o <<"\n">>
    IN  Commented[Len(lines)]

\* commentOut: every line prefixed with "// " and ended by a newline, one
\* trailing empty line dropped.
commentOut(code) ==
    LET split == SplitLines(code)
        lines == IF split[Len(split)] = <<>>
                 THEN SubSeq(split, 1, Len(split) - 1)
                 ELSE split
        Commented[i \in 0..Len(lines)] ==
            IF i = 0 THEN <<>>
            ELSE Commented[i - 1] \o CommentPrefix \o lines[i] \o <<"\n">>
    IN  Commented[Len(lines)]

\* trimAndCombineDocComment: the doc comment's lines without their first
\* "*", trimmed, the empty ones dropped, commented out.
trimAndCombineDocComment(docComment) ==
    LET split == SplitLines(docComment)
        mapped == [i \in 1..Len(split) |-> Trim(RemoveFirstStar(split[i]))]
        kept == SelectSeq(mapped, LAMBDA line : line # <<>>)
    IN  commentOut(Join(kept, <<"\n">>))

\* closing: the closing bracket of an opening bracket.
closing(ch) ==
    CASE ch = "(" -> ")"
      [] ch = "{" -> "}"
      [] ch = "[" -> "]"

\* The opening brackets (the keys of closing).
Openers == {"(", "{", "["}

\* closers: all closing brackets.
closers == {")", "}", "]"}

\* Whether a line comment starts at position i of the code:
\* code[i] === "/" && code[i + 1] === "/".
LineCommentAt(code, i) ==
    code[i] = "/" /\ i + 1 <= Len(code) /\ code[i + 1] = "/"

\* One position of a scan that skips line comments, as both scans below do:
\* a line comment is skipped up to and including its newline (i = nl, then
\* ++i), or to the end of the text when no newline follows (break).
\* `skipping` says that position i lies in a line comment.
SkipsAt(code, i, skipping) == skipping \/ LineCommentAt(code, i)

\* Whether the scan is still inside a line comment after position i.
SkippingAfter(code, i, skipping) == SkipsAt(code, i, skipping) /\ code[i] # "\n"

\* The body of the for loop of closeBrackets without the return for a
\* closing bracket that does not match: the bracket is passed over.
ScanStepForgiving(code, i, s) ==
    IF SkipsAt(code, i, s.skipping)
    THEN [s EXCEPT !.skipping = SkippingAfter(code, i, s.skipping)]
    ELSE IF code[i] \in Openers
    THEN [s EXCEPT !.brackets = <<closing(code[i])>> \o @]
    ELSE IF code[i] \in closers /\ s.brackets # <<>> /\ s.brackets[1] = code[i]
    THEN [s EXCEPT !.brackets = Tail(@)]
    ELSE s

\* The body of the for loop of closeBrackets at position i, in the state
\* s = [matched, brackets, skipping]: brackets are the outstanding closing
\* brackets, innermost first; matched is FALSE once a closing bracket did
\* not match (return undefined).
ScanStep(code, i, s) ==
    IF SkipsAt(code, i, s.skipping)
    THEN [s EXCEPT !.skipping = SkippingAfter(code, i, s.skipping)]
    ELSE IF code[i] \in Openers
    THEN [s EXCEPT !.brackets = <<closing(code[i])>> \o @]
    ELSE IF code[i] \in closers
    THEN IF s.brackets # <<>> /\ s.brackets[1] = code[i]
         THEN [s EXCEPT !.brackets = Tail(@)]
         ELSE [s EXCEPT !.matched = FALSE]
    ELSE s

\* The for loop of closeBrackets over the positions lo..hi, by halves; it
\* returns at the first closing bracket that does not match.
RECURSIVE ScanRange(_, _, _, _)
ScanRange(code, lo, hi, s) ==
    IF lo > hi THEN s
    ELSE IF lo = hi THEN ScanStep(code, lo, s)
    ELSE LET mid == (lo + hi) \div 2
             left == ScanRange(code, lo, mid, s)
         IN  IF ~left.matched THEN left ELSE ScanRange(code, mid + 1, hi, left)

\* The for loop of closeBrackets: whether every closing bracket matched,
\* and the outstanding closing brackets.
ScanBrackets(code) ==
    ScanRange(code, 1, Len(code),
              [matched |-> TRUE, brackets |-> <<>>, skipping |-> FALSE])

\* The result of closeBrackets when the code cannot be fixed (undefined).
Undefined == [defined |-> FALSE, source |-> <<>>]

\* closeBrackets after its for loop ended in the state `scan`: `parses`
\* says whether espree.parse accepts the code with the outstanding closing
\* brackets (it is not called when a closing bracket did not match).
closeBracketsParsed(code, scan, parses) ==
    IF ~scan.matched THEN Undefined
    ELSE IF parses
    THEN [defined |-> TRUE, source |-> code \o scan.brackets]
    ELSE Undefined

\* closeBrackets: the code with its missing closing brackets added, or
\* Undefined when a closing bracket does not match or the result does not
\* parse.  The parser is not modelled: `parses` is what espree.parse answers
\* for the code with the brackets added (TRUE if it returns, FALSE if it
\* throws).
closeBrackets(code, parses) ==
    closeBracketsParsed(code, ScanBrackets(code), parses)

\* completion.lastIndexOf("\n"), as a position from 1 on; 0 if there is none.
RECURSIVE LastIndexOf(_, _, _)
LastIndexOf(s, ch, from) ==
    IF from < 1 THEN 0
    ELSE IF s[from] = ch THEN from
    ELSE LastIndexOf(s, ch, from - 1)

\* completion.match(/[;})]\s*$/): the completion ends, whitespace aside,
\* with ";", "}" or ")".
EndsCompleteLine(completion) ==
    LET t == TrimEnd(completion)
    IN  t # <<>> /\ t[Len(t)] \in {";", "}", ")"}

\* The for loop with a stack for braces only.
RECURSIVE FirstUnopenedCloserBraces(_, _, _)
FirstUnopenedCloserBraces(completion, i, depth) ==
    IF i > Len(completion) THEN 0
    ELSE IF completion[i] = "{"
    THEN FirstUnopenedCloserBraces(completion, i + 1, depth + 1)
    ELSE IF completion[i] = "}"
    THEN IF depth = 0 THEN i
         ELSE FirstUnopenedCloserBraces(completion, i + 1, depth - 1)
    ELSE FirstUnopenedCloserBraces(completion, i + 1, depth)

\* The for loop of trimCompletion from position i on, with `depth` brackets
\* on the stack: the position of the first "}" or ")" met with an empty
\* stack, 0 if there is none.
RECURSIVE FirstUnopenedCloser(_, _, _)
FirstUnopenedCloser(completion, i, depth) ==
    IF i > Len(completion) THEN 0
    ELSE IF completion[i] \in {"{", "("}
    THEN FirstUnopenedCloser(completion, i + 1, depth + 1)
    ELSE IF completion[i] \in {"}", ")"}
    THEN IF depth = 0 THEN i
         ELSE FirstUnopenedCloser(completion, i + 1, depth - 1)
    ELSE FirstUnopenedCloser(completion, i + 1, depth)

\* trimCompletion: the last line is cut off unless the completion ends with
\* ";", "}" or ")"; the completion is cut before the first bracket that
\* closes more than was opened; the result is trimmed.
trimCompletion(completion) ==
    LET nl == LastIndexOf(completion, "\n", Len(completion))
        lines == IF EndsCompleteLine(completion) THEN completion
                 ELSE SubSeq(completion, 1, nl - 1)
        cut == FirstUnopenedCloser(lines, 1, 0)
    IN  Trim(IF cut = 0 THEN lines ELSE SubSeq(lines, 1, cut - 1))

(***************************************************************************)
(* promptCrafting.ts                                                       *)
(*                                                                         *)
(* A prompt object is a record: fun (the APIFunction), usageSnippets,      *)
(* options, isRetry (an instance of RetryPrompt, with its body and err)    *)
(* and the mutable list provenance.  Two fields are not fields of the      *)
(* source.  origin names the completion the prompt was refined for (the    *)
(* number of the query and the position of the completion in its answer;   *)
(* 0 and 0 for an initial prompt), for stating the ordering properties.    *)
(* parses is what espree.parse answers when RetryPrompt.assemble has the   *)
(* failing test of a retry prompt closed by closeBrackets (TRUE for a      *)
(* prompt that is no retry prompt: its assemble does not parse).           *)
(***************************************************************************)

\* defaultPromptOptions
defaultPromptOptions ==
    [includeSnippets |-> FALSE,
     includeDocComment |-> FALSE,
     includeFunctionBody |-> FALSE]

\* new Prompt(fun, usageSnippets, options)
NewPrompt(f, usageSnippets, options) ==
    [fun |-> f, usageSnippets |-> usageSnippets, options |-> options,
     isRetry |-> FALSE, body |-> <<>>, err |-> <<>>,
     provenance |-> <<>>, origin |-> <<0, 0>>, parses |-> TRUE]

\* A RetryPrompt constructed without the snippets of the previous prompt.
NewRetryPromptWithoutSnippets(prev, body, err) ==
    [fun |-> prev.fun, usageSnippets |-> <<>>,
     options |-> prev.options,
     isRetry |-> TRUE, body |-> body, err |-> err,
     provenance |-> <<>>, origin |-> <<0, 0>>, parses |-> TRUE]

\* new RetryPrompt(prev, body, err)
NewRetryPrompt(prev, body, err) ==
    [fun |-> prev.fun, usageSnippets |-> prev.usageSnippets,
     options |-> prev.options,
     isRetry |-> TRUE, body |-> body, err |-> err,
     provenance |-> <<>>, origin |-> <<0, 0>>, parses |-> TRUE]

\* The package of the functions under test (sanitized to p_q).
PackageName == <<"p", "-", "q">>

\* Prompt.constructor: this.imports for a package name, the dedented
\* template with the sanitized name and the name interpolated.
ImportsOf(packageName) ==
    dedent(ImportsMocha \o sanitizePackageName(packageName) \o ImportsRequire
               \o packageName \o ImportsEnd)

\* The imports of the prompts of the package PackageName.
ImportsOfPackageName == ImportsOf(PackageName)

\* Prompt.constructor: this.imports (those of the package PackageName are
\* computed once).
PromptImports(p) ==
    IF p.fun.packageName = PackageName THEN ImportsOfPackageName
    ELSE ImportsOf(p.fun.packageName)

\* Prompt.constructor: this.signature
PromptSignature(p) == commentOut(FunctionSignature(p.fun))

\* this.functionBody set whatever options.includeFunctionBody says.
PromptFunctionBodyAlways(p) == commentOut(p.fun.implementation)

\* Prompt.constructor: this.functionBody
PromptFunctionBody(p) ==
    IF p.options.includeFunctionBody
    THEN commentOut(p.fun.implementation)
    ELSE <<>>

\* Prompt.constructor: this.suiteHeader
PromptSuiteHeader(p) ==
    SuiteHeaderStart \o sanitizePackageName(p.fun.packageName) \o SuiteHeaderEnd

\* Prompt.constructor: this.testHeader
PromptTestHeader(p) == TestHeaderStart \o p.fun.accessPath \o TestHeaderEnd

\* Prompt.constructor: this.docComment (fun.descriptor.docComment ?? "")
PromptDocComment(p) ==
    IF p.options.includeDocComment
    THEN trimAndCombineDocComment(
             IF p.fun.docComment.defined THEN p.fun.docComment.text ELSE <<>>)
    ELSE <<>>

\* Prompt.assembleUsageSnippets
assembleUsageSnippets(p) ==
    IF ~p.options.includeSnippets THEN <<>>
    ELSE LET OneSnippet(index) ==
                 LET lines == SplitLines(p.usageSnippets[index])
                     Commented[i \in 0..Len(lines)] ==
                         IF i = 0 THEN <<>>
                         ELSE Commented[i - 1] \o CommentPrefix \o lines[i]
                                  \o <<"\n">>
                 IN  UsageStart \o NumberToString(index) \o <<"\n">>
                         \o Commented[Len(lines)]
             All[n \in 0..Len(p.usageSnippets)] ==
                 IF n = 0 THEN <<>> ELSE All[n - 1] \o OneSnippet(n)
         IN  All[Len(p.usageSnippets)]

\* Prompt.assemble
PromptAssemble(p) ==
    PromptImports(p) \o assembleUsageSnippets(p) \o PromptDocComment(p)
        \o PromptSignature(p) \o PromptFunctionBody(p)
        \o PromptSuiteHeader(p) \o PromptTestHeader(p)

\* RetryPrompt.assemble without the rewriting of the final closers.
RetryPromptAssembleKeepingClosers(p) ==
    LET rawFailingTest == PromptAssemble(p) \o p.body \o <<"\n">>
        completedFailingTest == closeBrackets(rawFailingTest, p.parses)
        failingTest ==
            IF completedFailingTest.defined
            THEN completedFailingTest.source
            ELSE rawFailingTest \o PrettyCloser
    IN  failingTest \o RetryTrailerStart \o p.err \o RetryTrailerEnd
            \o PromptTestHeader(p)

\* RetryPrompt.assemble
RetryPromptAssemble(p) ==
    LET rawFailingTest == PromptAssemble(p) \o p.body \o <<"\n">>
        completedFailingTest == closeBrackets(rawFailingTest, p.parses)
        failingTest ==
            IF completedFailingTest.defined
            THEN ReplaceFinalClosers(completedFailingTest.source, PrettyCloser)
            ELSE rawFailingTest \o PrettyCloser
    IN  failingTest \o RetryTrailerStart \o p.err \o RetryTrailerEnd
            \o PromptTestHeader(p)

\* prompt.assemble(), dispatched on the class of the prompt
assemble(p) == IF p.isRetry THEN RetryPromptAssemble(p) ELSE PromptAssemble(p)

\* Prompt.completeTest(body) with stubOutHeaders = false: the suite header
\* and the test header of the prompt in the place of the stubs.
completeTestWithHeaders(p, body, parses) ==
    LET fixed == closeBrackets(
                     PromptImports(p) \o PromptSuiteHeader(p)
                         \o PromptTestHeader(p) \o IndentFirstLine(body)
                         \o <<"\n">>,
                     parses)
    IN  IF fixed.defined
        THEN [defined |-> TRUE,
              source |-> ReplaceFinalClosers(fixed.source, PrettyClosers)]
        ELSE Undefined

\* Prompt.completeTest(body) with stubOutHeaders = true, its default;
\* `parses` is what espree.parse answers in closeBrackets.
completeTest(p, body, parses) ==
    LET fixed == closeBrackets(
                     PromptImports(p) \o StubHeaders \o IndentFirstLine(body)
                         \o <<"\n">>,
                     parses)
    IN  IF fixed.defined
        THEN [defined |-> TRUE,
              source |-> ReplaceFinalClosers(fixed.source, PrettyClosers)]
        ELSE Undefined

\* Prompt.functionHasDocComment
functionHasDocComment(p) == p.fun.docComment.defined

\* SnippetIncluder.refine without its test for a snippet.
SnippetIncluderRefineNoSnippets(original, completion, outcome) ==
    IF ~original.options.includeSnippets
    THEN <<NewPrompt(original.fun, original.usageSnippets,
                     [original.options EXCEPT !.includeSnippets = TRUE])>>
    ELSE <<>>

\* SnippetIncluder.refine
SnippetIncluderRefine(original, completion, outcome) ==
    IF ~original.options.includeSnippets /\ Len(original.usageSnippets) > 0
    THEN <<NewPrompt(original.fun, original.usageSnippets,
                     [original.options EXCEPT !.includeSnippets = TRUE])>>
    ELSE <<>>

\* DocCommentIncluder.refine
DocCommentIncluderRefine(original, completion, outcome) ==
    IF ~original.options.includeDocComment /\ functionHasDocComment(original)
    THEN <<NewPrompt(original.fun, original.usageSnippets,
                     [original.options EXCEPT !.includeDocComment = TRUE])>>
    ELSE <<>>

\* RetryWithError.refine without its test of the outcome.
RetryWithErrorRefineAnyOutcome(original, completion, outcome) ==
    IF ~original.isRetry
    THEN <<NewRetryPrompt(original, completion, outcome.message)>>
    ELSE <<>>

\* RetryWithError.refine without its test for a retry prompt.
RetryWithErrorRefineChaining(original, completion, outcome) ==
    IF outcome.status = "FAILED"
    THEN <<NewRetryPrompt(original, completion, outcome.message)>>
    ELSE <<>>

\* RetryWithError.refine
RetryWithErrorRefine(original, completion, outcome) ==
    IF ~original.isRetry /\ outcome.status = "FAILED"
    THEN <<NewRetryPrompt(original, completion, outcome.message)>>
    ELSE <<>>

\* FunctionBodyIncluder.refine without its test for a body.
FunctionBodyIncluderRefineNoBody(original, completion, outcome) ==
    IF ~original.options.includeFunctionBody
    THEN <<NewPrompt(original.fun, original.usageSnippets,
                     [original.options EXCEPT !.includeFunctionBody = TRUE])>>
    ELSE <<>>

\* FunctionBodyIncluder.refine
FunctionBodyIncluderRefine(original, completion, outcome) ==
    IF ~original.options.includeFunctionBody /\ original.fun.implementation # <<>>
    THEN <<NewPrompt(original.fun, original.usageSnippets,
                     [original.options EXCEPT !.includeFunctionBody = TRUE])>>
    ELSE <<>>

(***************************************************************************)
(* report.ts: test outcomes                                                *)
(***************************************************************************)

\* TestOutcome.PASSED()
Passed == [status |-> "PASSED", message |-> <<>>]

\* TestOutcome.FAILED({ message })
Failed(message) == [status |-> "FAILED", message |-> message]

\* TestOutcome.PENDING
Pending == [status |-> "PENDING", message |-> <<>>]

\* TestOutcome.OTHER
Other == [status |-> "OTHER", message |-> <<>>]

(***************************************************************************)
(* The inputs of the model: the functions under test, the snippet map, the *)
(* temperature lists, and what the completion provider and the validator   *)
(* may answer.                                                             *)
(***************************************************************************)

\* p-q.f(x): a function with a doc comment, no body and one usage snippet.
FunF ==
    [packageName |-> PackageName,
     accessPath |-> PackageName \o <<".", "f">>,
     parameters |-> <<"(", "x", ")">>,
     docComment |-> [defined |-> TRUE,
                     text |-> <<"*", "\n", " ", "*", " ", "d", " ", "\n", " ">>],
     implementation |-> <<>>]

\* p-q.g(): a function whose doc comment is defined but empty (the block
\* comment /**/), with a body and no usage snippet.
FunG ==
    [packageName |-> PackageName,
     accessPath |-> PackageName \o <<".", "g">>,
     parameters |-> <<"(", ")">>,
     docComment |-> [defined |-> TRUE, text |-> <<>>],
     implementation |-> <<"g", "(", ")", "{", "}">>]

\* The functions the driver may be given.
FunctionUniverse == {FunF, FunG}

\* The lists of functions handed to runExperiment: the access paths of an
\* API are distinct.
FunctionLists ==
    {fs \in UNION {[1..n -> FunctionUniverse] : n \in 1..MaxFunctions} :
        \A i, j \in DOMAIN fs : i # j => fs[i] # fs[j]}

\* APIFunction.functionName: accessPath.split(".").pop()
RECURSIVE LastSegment(_, _)
LastSegment(path, from) ==
    LET dot == IndexOf(path, ".", from)
    IN  IF dot = 0 THEN SubSeq(path, from, Len(path))
        ELSE LastSegment(path, dot + 1)

\* APIFunction.functionName
functionName(f) == LastSegment(f.accessPath, 1)

\* The snippet map handed to the generator: one snippet of two lines for f,
\* nothing (undefined) for every other name.
snippetMap(name) ==
    IF name = <<"f">>
    THEN [defined |-> TRUE,
          list |-> << <<"f", "(", "1", ")", ";", "\n", "f", "(", "2", ")">> >>]
    ELSE [defined |-> FALSE, list |-> <<>>]

\* The lists of temperatures a caller supplies: the descending lists of
\* the temperatures ..., 1, 0 (a list is not sorted by the generator).
TemperatureLists == {[i \in 1..n |-> n - i] : n \in 1..MaxTemperatures}

\* The completions the provider draws its answers from: the empty
\* completion, a statement, and a completion with an unmatched closing
\* bracket.
CompletionUniverse == {<<>>, <<"a", ";">>, <<")">>}

\* The answers of the provider: a Set<string>, iterated in insertion
\* order, so a sequence without repetition.
CompletionSets ==
    {cs \in UNION {[1..n -> CompletionUniverse] : n \in 0..MaxCompletions} :
        \A i, j \in DOMAIN cs : i # j => cs[i] # cs[j]}

\* What a call of validator.validateTest may do: return an outcome (a test
\* that passed, that failed, or that mocha reports as pending), or throw
\* (MochaValidator.validateTest throws for a test file that exists).
ValidatorResults ==
    {[threw |-> FALSE, outcome |-> Passed],
     [threw |-> FALSE, outcome |-> Failed(TestFailedMessage)],
     [threw |-> FALSE, outcome |-> Pending],
     [threw |-> TRUE, outcome |-> Other]}

\* The completions of the universe that never complete to a test: the
\* validator is not called for them.
NeverValidated == {<<>>, <<")">>}

\* The for loop of closeBrackets at the end of the imports and the stub
\* headers of a prompt of the package PackageName: the brackets of the
\* headers are outstanding.
StubHeadersScanned ==
    ScanBrackets(PromptImports([fun |-> FunF]) \o StubHeaders)

\* The names the imports of a prompt cannot bind with let: the keywords and
\* reserved words of a script (espree.parse with ecmaVersion "latest"), let
\* itself, and the two names the imports have bound before.
UnbindableNames ==
    {<<"b","r","e","a","k">>, <<"c","a","s","e">>, <<"c","a","t","c","h">>,
     <<"c","o","n","t","i","n","u","e">>, <<"d","e","b","u","g","g","e","r">>,
     <<"d","e","f","a","u","l","t">>, <<"d","o">>, <<"e","l","s","e">>,
     <<"f","i","n","a","l","l","y">>, <<"f","o","r">>,
     <<"f","u","n","c","t","i","o","n">>, <<"i","f">>,
     <<"r","e","t","u","r","n">>, <<"s","w","i","t","c","h">>,
     <<"t","h","r","o","w">>, <<"t","r","y">>, <<"v","a","r">>,
     <<"w","h","i","l","e">>, <<"w","i","t","h">>, <<"n","u","l","l">>,
     <<"t","r","u","e">>, <<"f","a","l","s","e">>,
     <<"i","n","s","t","a","n","c","e","o","f">>, <<"t","y","p","e","o","f">>,
     <<"v","o","i","d">>, <<"d","e","l","e","t","e">>, <<"n","e","w">>,
     <<"i","n">>, <<"t","h","i","s">>, <<"c","o","n","s","t">>,
     <<"c","l","a","s","s">>, <<"e","x","t","e","n","d","s">>,
     <<"e","x","p","o","r","t">>, <<"i","m","p","o","r","t">>,
     <<"s","u","p","e","r">>, <<"e","n","u","m">>, <<"l","e","t">>,
     <<"m","o","c","h","a">>, <<"a","s","s","e","r","t">>}

\* What espree.parse may answer in completeTest of prompt p for a completion
\* (TRUE: it returns, FALSE: it throws).  closeBrackets scans the whole text
\* completeTest builds, the imports and the stub headers before the body: a
\* closing bracket of the body may close a bracket of the headers (for the
\* package PackageName the loop is taken up where it stands after the
\* headers).  When a closing bracket does not match, the parser is not
\* called and no text is accepted (one fixed answer then).  When it is
\* called it rejects every test whose imports bind no name: the sanitized
\* package name starts with a digit or cannot be bound.  For a package name
\* of word characters, "-", ".", "@" and single "/" (the empty name, which
\* makes the import an assignment to let, is one) it accepts the test with
\* an empty body, the test whose body is the statement a; and the test
\* whose body closes the test header with }), whatever the white space
\* around them.  For any other package name (a quote, a line break, a
\* backslash, a bracket or "//" inside the string literal of require) and
\* any other body it may answer either way.
ParserVerdicts(p, completion) ==
    LET body == IndentFirstLine(completion) \o <<"\n">>
        pkg == p.fun.packageName
        name == sanitizePackageName(pkg)
        scan == IF pkg = PackageName
                THEN ScanRange(body, 1, Len(body), StubHeadersScanned)
                ELSE ScanBrackets(PromptImports(p) \o StubHeaders \o body)
    IN  IF ~scan.matched THEN {FALSE}
        ELSE IF \/ name # <<>> /\ \E d \in DOMAIN Digits : name[1] = Digits[d]
                \/ name \in UnbindableNames
        THEN {FALSE}
        ELSE IF \/ \E i \in DOMAIN pkg :
                       pkg[i] \notin WordChars \cup {"-", ".", "@", "/"}
                \/ \E i \in DOMAIN pkg :
                       i < Len(pkg) /\ pkg[i] = "/" /\ pkg[i + 1] = "/"
        THEN BOOLEAN
        ELSE IF Trim(completion) \in {<<>>, <<"a", ";">>, <<"}", ")">>}
        THEN {TRUE}
        ELSE BOOLEAN

\* What the validator and the parser may do for a completion of prompt p:
\* one fixed choice of the validator for a completion it is never called
\* for.
ResultsOf(p, completion) ==
    {[threw |-> r.threw, outcome |-> r.outcome, parses |-> v] :
        r \in IF completion \in NeverValidated
              THEN {[threw |-> FALSE, outcome |-> Passed]}
              ELSE ValidatorResults,
        v \in ParserVerdicts(p, completion)}

\* What the validator and the parser do for each completion of an answer
\* to prompt p, if they are called.
RECURSIVE ValidatorResultsFor(_, _)
ValidatorResultsFor(p, completions) ==
    IF completions = <<>> THEN {<<>>}
    ELSE {<<r>> \o rs :
             r \in ResultsOf(p, Head(completions)),
             rs \in ValidatorResultsFor(p, Tail(completions))}
(***************************************************************************)
(* The state.                                                              *)
(*                                                                         *)
(* Inputs: functions, temperatures.                                        *)
(* runExperiment: workList, and expired (performance.now() > deadline).    *)
(* generateAndValidateTests: fun, tIdx (the position of the for loop in    *)
(*   temperatures), generatedPassingTests, generatedPrompts (the entries   *)
(*   of the Map, key and prompt), worklist, prompt (the prompt whose       *)
(*   completions are awaited).                                             *)
(* heap: the Prompt objects ever constructed for a worklist, by reference. *)
(* BaseTestResultCollector: tests, promptInfos (the values of the two      *)
(*   Maps in insertion order), coverageRecorded.                           *)
(* pc: the control point; exception: who threw the exception that left.    *)
(* The environment: answersLeft (the non-empty answers the provider still  *)
(*   gives) and its records of the run: passes (the temperature passes     *)
(*   begun), queries (the calls of model.completions: the prompt object,   *)
(*   the text and the temperature handed over, and the pass), answers (the *)
(*   completion sets the calls resolved with, in order), dequeued          *)
(*   (the prompts popped), validatorCalls (the calls of validateTest).     *)
(* A function called on its own, outside a run of the engine: input (the   *)
(*   arguments, or the calls still to make) and output (empty before the   *)
(*   call, then what the call returned).                                   *)
(* main: cleanedUp (validator.cleanup() was called).                       *)
(* Generations run side by side on one collector, outside runExperiment:   *)
(*   generations (for each its control point and the locals of            *)
(*   generateAndValidateTests), running (the generation that holds the     *)
(*   thread, 0 when none does) and steps (the record of their steps).      *)
(***************************************************************************)
VARIABLES functions, temperatures, workList, expired, pc, fun, tIdx,
          generatedPassingTests, generatedPrompts, worklist, prompt, heap,
          tests, promptInfos, coverageRecorded, exception, answersLeft,
          passes, queries, answers, dequeued, validatorCalls, input,
          output,
          cleanedUp, generations, running, steps

vars == <<functions, temperatures, workList, expired, pc, fun, tIdx,
          generatedPassingTests, generatedPrompts, worklist, prompt, heap,
          tests, promptInfos, coverageRecorded, exception, answersLeft,
          passes, queries, answers, dequeued, validatorCalls, input,
          output,
          cleanedUp, generations, running, steps>>

(***************************************************************************)
(* testResultCollector.ts                                                  *)
(***************************************************************************)

\* `test_${id}.js`
TestFileName(id) ==
    <<"t", "e", "s", "t", "_">> \o NumberToString(id) \o <<".", "j", "s">>

\* `prompt_${id}.js`
PromptFileName(id) ==
    <<"p", "r", "o", "m", "p", "t", "_">> \o NumberToString(id)
        \o <<".", "j", "s">>

\* recordTestInfo without the lookup of the source: a new test info for
\* every call.
recordTestInfoNoLookup(ts, testSource, p, api) ==
    [tests |-> Append(ts, [id |-> Len(ts), testName |-> TestFileName(Len(ts)),
                           outcome |-> Other, testSource |-> testSource,
                           prompts |-> <<p>>, api |-> api]),
     index |-> Len(ts) + 1]

\* recordTestInfo giving a test info that is found again the next free id,
\* as recordPromptInfo does for a prompt.
recordTestInfoRenumbering(ts, testSource, p, api) ==
    LET known == {i \in DOMAIN ts : ts[i].testSource = testSource}
    IN  IF known # {}
        THEN LET i == CHOOSE i \in known : TRUE
             IN  [tests |-> [ts EXCEPT ![i].prompts = Append(@, p),
                                       ![i].id = Len(ts),
                                       ![i].testName = TestFileName(Len(ts))],
                  index |-> i]
        ELSE [tests |-> Append(ts, [id |-> Len(ts),
                                    testName |-> TestFileName(Len(ts)),
                                    outcome |-> Other,
                                    testSource |-> testSource,
                                    prompts |-> <<p>>, api |-> api]),
              index |-> Len(ts) + 1]

\* A recordTestInfo that gives a test info found again the api of the
\* function it is found for.
recordTestInfoLastApi(ts, testSource, p, api) ==
    LET known == {i \in DOMAIN ts : ts[i].testSource = testSource}
    IN  IF known # {}
        THEN LET i == CHOOSE i \in known : TRUE
             IN  [tests |-> [ts EXCEPT ![i].prompts = Append(@, p),
                                       ![i].api = api],
                  index |-> i]
        ELSE [tests |-> Append(ts, [id |-> Len(ts),
                                    testName |-> TestFileName(Len(ts)),
                                    outcome |-> Other,
                                    testSource |-> testSource,
                                    prompts |-> <<p>>, api |-> api]),
              index |-> Len(ts) + 1]

\* A recordTestInfo that lists a prompt once in a test info.
recordTestInfoPromptOnce(ts, testSource, p, api) ==
    LET known == {i \in DOMAIN ts : ts[i].testSource = testSource}
    IN  IF known # {}
        THEN LET i == CHOOSE i \in known : TRUE
             IN  [tests |-> IF \E k \in DOMAIN ts[i].prompts :
                                  ts[i].prompts[k] = p
                            THEN ts
                            ELSE [ts EXCEPT ![i].prompts = Append(@, p)],
                  index |-> i]
        ELSE [tests |-> Append(ts, [id |-> Len(ts),
                                    testName |-> TestFileName(Len(ts)),
                                    outcome |-> Other,
                                    testSource |-> testSource,
                                    prompts |-> <<p>>, api |-> api]),
              index |-> Len(ts) + 1]

\* BaseTestResultCollector.recordTestInfo on the test infos ts: the new test
\* infos and the position of the test info returned.
recordTestInfo(ts, testSource, p, api) ==
    LET known == {i \in DOMAIN ts : ts[i].testSource = testSource}
    IN  IF known # {}
        THEN LET i == CHOOSE i \in known : TRUE
             IN  [tests |-> [ts EXCEPT ![i].prompts = Append(@, p)],
                  index |-> i]
        ELSE [tests |-> Append(ts, [id |-> Len(ts),
                                    testName |-> TestFileName(Len(ts)),
                                    outcome |-> Other,
                                    testSource |-> testSource,
                                    prompts |-> <<p>>, api |-> api]),
              index |-> Len(ts) + 1]

\* BaseTestResultCollector.recordTestResult
recordTestResult(ts, index, temperature, outcome) ==
    [ts EXCEPT ![index].outcome = outcome]

\* A recordPromptInfo that keeps the prompt info recorded last only.
recordPromptInfoLastOnly(ps, p, temperature, completions) ==
    <<[prompt |-> p, id |-> Len(ps), file |-> PromptFileName(Len(ps)),
       temperature |-> temperature, completions |-> completions]>>

\* A recordPromptInfo that records nothing for an empty completion set.
recordPromptInfoNonEmpty(ps, p, temperature, completions) ==
    IF completions = <<>> THEN ps
    ELSE Append(ps, [prompt |-> p, id |-> Len(ps),
                     file |-> PromptFileName(Len(ps)),
                     temperature |-> temperature,
                     completions |-> completions])

\* BaseTestResultCollector.recordPromptInfo on the prompt infos ps: Map.set
\* replaces the value of a key that is present and appends otherwise.
recordPromptInfo(ps, p, temperature, completions) ==
    LET id == Len(ps)
        info == [prompt |-> p, id |-> id, file |-> PromptFileName(id),
                 temperature |-> temperature, completions |-> completions]
        known == {i \in DOMAIN ps : ps[i].prompt = p}
    IN  IF known # {}
        THEN [ps EXCEPT ![CHOOSE i \in known : TRUE] = info]
        ELSE Append(ps, info)

(***************************************************************************)
(* generateTests.ts                                                        *)
(***************************************************************************)

\* TestGenerator.refiners: the names of the refiners, in order.
refiners ==
    <<"SnippetIncluder", "RetryWithError", "DocCommentIncluder",
      "FunctionBodyIncluder">>

\* refiner.refine(original, completion, outcome) for the refiner `name`.
refine(name, original, completion, outcome) ==
    CASE name = "SnippetIncluder" ->
             SnippetIncluderRefine(original, completion, outcome)
      [] name = "RetryWithError" ->
             RetryWithErrorRefine(original, completion, outcome)
      [] name = "DocCommentIncluder" ->
             DocCommentIncluderRefine(original, completion, outcome)
      [] name = "FunctionBodyIncluder" ->
             FunctionBodyIncluderRefine(original, completion, outcome)

\* The test of validateCompletion for a test validated before, with the
\* bound off by one.
alreadyValidatedOffByOne(testInfo) == Len(testInfo.prompts) > 2

\* validateCompletion: testInfo.prompts.length > 1, "we have already
\* validated this test".
alreadyValidated(testInfo) == Len(testInfo.prompts) > 1

\* The outcome computation of validateCompletion, throwing for an empty
\* completion instead of recording a failure.
computeOutcomeThrowing(completion, testSource, result) ==
    IF completion = <<>>
    THEN [threw |-> TRUE, by |-> "engine", outcome |-> Other]
    ELSE IF testSource.defined /\ testSource.source # <<>>
    THEN [threw |-> result.threw, by |-> "validator", outcome |-> result.outcome]
    ELSE [threw |-> FALSE, by |-> "engine",
          outcome |-> Failed(InvalidSyntaxMessage)]

\* The outcome computation of validateCompletion without the test for an
\* empty completion: the assembled test is handed to the validator.
computeOutcomeEmptyValidated(completion, testSource, result) ==
    IF testSource.defined /\ testSource.source # <<>>
    THEN [threw |-> result.threw, by |-> "validator", outcome |-> result.outcome]
    ELSE [threw |-> FALSE, by |-> "engine",
          outcome |-> Failed(InvalidSyntaxMessage)]

\* The outcome computation of validateCompletion, leaving the outcome of a
\* completion that cannot be repaired as it was recorded (OTHER).
computeOutcomeInvalidSkipped(completion, testSource, result) ==
    IF completion = <<>>
    THEN [threw |-> FALSE, by |-> "engine", outcome |-> Failed(EmptyTestMessage)]
    ELSE IF testSource.defined /\ testSource.source # <<>>
    THEN [threw |-> result.threw, by |-> "validator", outcome |-> result.outcome]
    ELSE [threw |-> FALSE, by |-> "engine", outcome |-> Other]

\* validateCompletion, the computation of the outcome: `result` is what the
\* validator does if it is called (and what the parser answered in
\* completeTest); `by` names who made the outcome.
computeOutcome(completion, testSource, result) ==
    IF completion = <<>>
    THEN [threw |-> FALSE, by |-> "engine", outcome |-> Failed(EmptyTestMessage)]
    ELSE IF testSource.defined /\ testSource.source # <<>>
    THEN [threw |-> result.threw, by |-> "validator", outcome |-> result.outcome]
    ELSE [threw |-> FALSE, by |-> "engine",
          outcome |-> Failed(InvalidSyntaxMessage)]

\* TestGenerator.validateCompletion for the prompt object p of heap h: the
\* new test infos, the position of the test info returned, the calls of the
\* validator, and who threw, if the call did not return.
validateCompletion(h, ts, calls, p, completion, temperature, result) ==
    LET testSource == completeTest(h[p], completion, result.parses)
        recorded == recordTestInfo(
                        ts,
                        IF testSource.defined THEN testSource.source
                        ELSE completion,
                        p, h[p].fun.accessPath)
        testInfo == recorded.tests[recorded.index]
        computed == computeOutcome(completion, testSource, result)
        called == IF computed.by = "validator"
                  THEN Append(calls, [testName |-> testInfo.testName,
                                      testSource |-> testInfo.testSource,
                                      threw |-> computed.threw,
                                      outcome |-> computed.outcome,
                                      pass |-> Len(passes)])
                  ELSE calls
    IN  IF alreadyValidated(testInfo)
        THEN [tests |-> recorded.tests, index |-> recorded.index,
              calls |-> calls, exception |-> "none"]
        ELSE IF computed.threw
        THEN [tests |-> recorded.tests, index |-> recorded.index,
              calls |-> called, exception |-> computed.by]
        ELSE [tests |-> recordTestResult(recorded.tests, recorded.index,
                                         temperature, computed.outcome),
              index |-> recorded.index,
              calls |-> called, exception |-> "none"]

\* The inner loop of refinePrompts: the prompts a refiner returned, from the
\* n-th on, tagged with the provenance and pushed on the worklist.  `parses`
\* is what the parser answers for the failing test of a retry prompt made
\* for the completion.
RECURSIVE PushRefined(_, _, _, _, _, _, _)
PushRefined(h, wl, refined, n, provenance, origin, parses) ==
    IF n > Len(refined) THEN [heap |-> h, worklist |-> wl]
    ELSE PushRefined(
             Append(h, [refined[n] EXCEPT !.provenance = Append(@, provenance),
                                          !.origin = origin,
                                          !.parses = refined[n].isRetry => parses]),
             Append(wl, Len(h) + 1),
             refined, n + 1, provenance, origin, parses)

\* A provenance record with the id the next new test info will get.
provenanceRecordNextId(p, testInfo, name) ==
    [originalPrompt |-> p, testId |-> testInfo.id + 1, refiner |-> name]

\* const provenance = { originalPrompt: prompt, testId: testInfo.id,
\*                      refiner: refiner.name }
provenanceRecord(p, testInfo, name) ==
    [originalPrompt |-> p, testId |-> testInfo.id, refiner |-> name]

\* The outer loop of refinePrompts, from the k-th refiner on.
RECURSIVE RefineFrom(_, _, _, _, _, _, _, _)
RefineFrom(h, wl, k, p, completion, testInfo, origin, parses) ==
    IF k > Len(refiners) THEN [heap |-> h, worklist |-> wl]
    ELSE LET pushed == PushRefined(
                           h, wl,
                           refine(refiners[k], h[p], completion, testInfo.outcome),
                           1,
                           provenanceRecord(p, testInfo, refiners[k]),
                           origin, parses)
         IN  RefineFrom(pushed.heap, pushed.worklist, k + 1, p, completion,
                        testInfo, origin, parses)

\* TestGenerator.refinePrompts
refinePrompts(h, wl, p, completion, testInfo, origin, parses) ==
    RefineFrom(h, wl, 1, p, completion, testInfo, origin, parses)

\* The loop over the completions of generateAndValidateTests, from the i-th
\* completion on, in the state s = [heap, tests, worklist, passing, calls,
\* exception]; it ends at the first call that throws.
RECURSIVE ForEachCompletion(_, _, _, _, _, _)
ForEachCompletion(s, p, temperature, completions, results, i) ==
    IF i > Len(completions) \/ s.exception # "none" THEN s
    ELSE LET v == validateCompletion(s.heap, s.tests, s.calls, p,
                                     completions[i], temperature, results[i])
             testInfo == v.tests[v.index]
             refined == refinePrompts(s.heap, s.worklist, p, completions[i],
                                      testInfo, <<Len(queries), i>>,
                                      results[i].parses)
         IN  IF v.exception # "none"
             THEN [s EXCEPT !.tests = v.tests, !.calls = v.calls,
                            !.exception = v.exception]
             ELSE ForEachCompletion(
                      [heap |-> refined.heap, tests |-> v.tests,
                       worklist |-> refined.worklist,
                       passing |-> s.passing
                                     \/ testInfo.outcome.status = "PASSED",
                       calls |-> v.calls, exception |-> "none"],
                      p, temperature, completions, results, i + 1)

\* A map of generated prompts that is kept from one temperature to the next.
newGeneratedPromptsKeeping(entries) == entries

\* const generatedPrompts = new Map<string, Prompt>(): the entries of the
\* pass before are dropped.
newGeneratedPrompts(entries) == <<>>

\* A lookup that never finds the key: no prompt counts as generated before.
generatedPromptsGetNothing(entries, key) == 0

\* A lookup that finds the key of the first entry only.
generatedPromptsGetFirst(entries, key) ==
    IF entries # <<>> /\ entries[1].key = key THEN entries[1].prompt ELSE 0

\* generatedPrompts.get(key): the prompt stored under the key, 0 if none.
generatedPromptsGet(entries, key) ==
    LET known == {i \in DOMAIN entries : entries[i].key = key}
    IN  IF known = {} THEN 0 ELSE entries[CHOOSE i \in known : TRUE].prompt

\* worklist.shift(): the dequeue of a FIFO worklist.
worklistShift(wl) == [prompt |-> Head(wl), rest |-> Tail(wl)]

\* worklist.pop()
worklistPop(wl) == [prompt |-> wl[Len(wl)], rest |-> SubSeq(wl, 1, Len(wl) - 1)]

\* A loop exit that breaks after every temperature.
breakAfterTemperatureAlways(passing) == TRUE

\* A loop exit that goes on to the next temperature whatever was generated.
breakAfterTemperatureNever(passing) == FALSE

\* if (generatedPassingTests) break;
breakAfterTemperature(passing) == passing

\* workList.pop() in the place of shift(): the last function.
runExperimentPop(wl) ==
    [fun |-> wl[Len(wl)], rest |-> SubSeq(wl, 1, Len(wl) - 1)]

\* const { fun } = workList.shift()!
runExperimentShift(wl) == [fun |-> Head(wl), rest |-> Tail(wl)]

\* A deadline check that never sees the deadline.
deadlineReachedNever(isExpired) == FALSE

\* runExperiment: performance.now() > deadline
deadlineReached(isExpired) == isExpired

\* this.snippetMap(fun.functionName) ?? []
snippetsOrEmpty(found) == IF found.defined THEN found.list ELSE <<>>

\* const snippets = this.snippetMap(fun.functionName) ?? [];
\* new Prompt(fun, snippets)
initialPrompt(f) ==
    NewPrompt(f, snippetsOrEmpty(snippetMap(functionName(f))),
              defaultPromptOptions)

(***************************************************************************)
(* The initial state: runExperiment was called with the functions, the     *)
(* generator and an empty collector were constructed.                      *)
(***************************************************************************)
Init ==
    /\ functions \in FunctionLists
    /\ temperatures \in TemperatureLists
    /\ Len(functions) * Len(temperatures) <= MaxPasses
    /\ workList = functions
    /\ expired = FALSE
    /\ pc = "runExperiment"
    /\ fun = FunF
    /\ tIdx = 1
    /\ generatedPassingTests = FALSE
    /\ generatedPrompts = <<>>
    /\ worklist = <<>>
    /\ prompt = 0
    /\ heap = <<>>
    /\ tests = <<>>
    /\ promptInfos = <<>>
    /\ coverageRecorded = FALSE
    /\ exception = "none"
    /\ answersLeft = MaxAnswers
    /\ passes = <<>>
    /\ queries = <<>>
    /\ answers = <<>>
    /\ dequeued = <<>>
    /\ validatorCalls = <<>>
    /\ input = <<>>
    /\ output = <<>>
    /\ cleanedUp = FALSE
    /\ generations = <<>>
    /\ running = 0
    /\ steps = <<>>

\* A function called on its own.
callVars == <<input, output>>

\* Generations side by side.
concVars == <<generations, running, steps>>

\* The variables of one call of generateAndValidateTests.
genVars == <<generatedPassingTests, generatedPrompts, worklist, prompt>>

\* The collector.
collectorVars == <<tests, promptInfos>>

\* The environment's records.
logVars == <<passes, queries, answers, dequeued, validatorCalls>>

\* The wall clock passes the deadline of runExperiment, while functions
\* are left on the workList (later, nothing reads the clock), seen at the
\* heads of the two loops.
DeadlineExpires ==
    /\ ~expired
    /\ pc \in {"runExperiment", "while"}
    /\ workList # <<>>
    /\ expired' = TRUE
    /\ UNCHANGED <<callVars, concVars, cleanedUp,
                   functions, temperatures, workList, pc, fun, tIdx, genVars,
                   heap, collectorVars, coverageRecorded, exception,
                   answersLeft, logVars>>

\* runExperiment, the loop: the deadline was not reached; the next function
\* is shifted off the workList and generateAndValidateTests is called.
RunExperimentNext ==
    /\ pc = "runExperiment"
    /\ workList # <<>>
    /\ ~deadlineReached(expired)
    /\ fun' = runExperimentShift(workList).fun
    /\ workList' = runExperimentShift(workList).rest
    /\ tIdx' = 1
    /\ pc' = "for"
    /\ UNCHANGED <<callVars, concVars, cleanedUp,
                   functions, temperatures, expired, genVars, heap,
                   collectorVars, coverageRecorded, exception, answersLeft,
                   logVars>>

\* runExperiment, the end: the workList is empty or the time limit was
\* reached (break); validator.computeCoverageSummary() returns and the
\* coverage summary is recorded.
RunExperimentEnd ==
    /\ pc = "runExperiment"
    /\ workList = <<>> \/ deadlineReached(expired)
    /\ coverageRecorded' = TRUE
    /\ pc' = "done"
    /\ UNCHANGED <<callVars, concVars, cleanedUp,
                   functions, temperatures, workList, expired, fun, tIdx,
                   genVars, heap, collectorVars, exception, answersLeft,
                   logVars>>

\* runExperiment, the end, with a validator.computeCoverageSummary() that
\* throws (MochaValidator throws when nyc left no summary):
\* recordCoverageInfo is not called and the exception leaves runExperiment.
RunExperimentEndThrows ==
    /\ pc = "runExperiment"
    /\ workList = <<>> \/ deadlineReached(expired)
    /\ exception' = "coverage"
    /\ pc' = "threw"
    /\ UNCHANGED <<callVars, concVars, cleanedUp,
                   functions, temperatures, workList, expired, fun, tIdx,
                   genVars, heap, collectorVars, coverageRecorded,
                   answersLeft, logVars>>

\* generateAndValidateTests, the head of the for loop with a temperature
\* left: the pass starts with a fresh initial prompt.
NextTemperature ==
    /\ pc = "for"
    /\ tIdx <= Len(temperatures)
    /\ heap' = Append(heap, initialPrompt(fun))
    /\ generatedPassingTests' = FALSE
    /\ generatedPrompts' = newGeneratedPrompts(generatedPrompts)
    /\ worklist' = <<Len(heap) + 1>>
    /\ passes' = Append(passes, [call |-> Len(functions) - Len(workList),
                                 tIdx |-> tIdx,
                                 temperature |-> temperatures[tIdx]])
    /\ pc' = "while"
    /\ UNCHANGED <<callVars, concVars, cleanedUp,
                   functions, temperatures, workList, expired, fun, tIdx,
                   prompt, collectorVars, coverageRecorded, exception,
                   answersLeft, queries, answers, dequeued, validatorCalls>>

\* generateAndValidateTests, the head of the for loop with no temperature
\* left: the call returns to runExperiment.
TemperaturesDone ==
    /\ pc = "for"
    /\ tIdx > Len(temperatures)
    /\ pc' = "runExperiment"
    /\ UNCHANGED <<callVars, concVars, cleanedUp,
                   functions, temperatures, workList, expired, fun, tIdx,
                   genVars, heap, collectorVars, coverageRecorded, exception,
                   answersLeft, logVars>>

\* The while loop, a prompt generated before: its provenance is added to
\* the previous prompt and it is skipped.  (The locals of the loop body are
\* bound by \E over a singleton, which evaluates each of them once.)
DequeueSeen ==
    /\ pc = "while"
    /\ worklist # <<>>
    /\ \E popped \in {worklistPop(worklist)} :
       \E assembledPrompt \in {assemble(heap[popped.prompt])} :
       \E previousPrompt \in {generatedPromptsGet(generatedPrompts, assembledPrompt)} :
           /\ previousPrompt # 0
           /\ worklist' = popped.rest
           /\ heap' = [heap EXCEPT ![previousPrompt].provenance =
                                       @ \o heap[popped.prompt].provenance]
           /\ dequeued' = Append(dequeued, popped.prompt)
    /\ UNCHANGED <<callVars, concVars, cleanedUp,
                   functions, temperatures, workList, expired, pc, fun, tIdx,
                   generatedPassingTests, generatedPrompts, prompt,
                   collectorVars, coverageRecorded, exception, answersLeft,
                   passes, queries, answers, validatorCalls>>

\* The while loop, a new prompt: it is stored under its text and the
\* completion model is queried.
DequeueNew ==
    /\ pc = "while"
    /\ worklist # <<>>
    /\ \E popped \in {worklistPop(worklist)} :
       \E assembledPrompt \in {assemble(heap[popped.prompt])} :
       \E previousPrompt \in {generatedPromptsGet(generatedPrompts, assembledPrompt)} :
           /\ previousPrompt = 0
           /\ worklist' = popped.rest
           /\ generatedPrompts' =
                  Append(generatedPrompts,
                         [key |-> assembledPrompt, prompt |-> popped.prompt])
           /\ prompt' = popped.prompt
           /\ dequeued' = Append(dequeued, popped.prompt)
           /\ queries' = Append(queries, [prompt |-> popped.prompt,
                                          text |-> assembledPrompt,
                                          temperature |-> temperatures[tIdx],
                                          pass |-> Len(passes)])
    /\ pc' = "await"
    /\ UNCHANGED <<callVars, concVars, cleanedUp,
                   functions, temperatures, workList, expired, fun, tIdx,
                   generatedPassingTests, heap, collectorVars,
                   coverageRecorded, exception, answersLeft, passes,
                   answers, validatorCalls>>

\* The completion model resolves with `completions`; every completion is
\* validated and refined, then the prompt info is recorded.  `results` is
\* what the validator does for each completion if it is called.  A throwing
\* validator ends the call, and with it runExperiment.
ResolveLoop(completions, results) ==
    /\ pc = "await"
    /\ completions # <<>> => answersLeft > 0
    /\ \E s \in {ForEachCompletion(
                     [heap |-> heap, tests |-> tests,
                      worklist |-> worklist,
                      passing |-> generatedPassingTests,
                      calls |-> validatorCalls, exception |-> "none"],
                     prompt, temperatures[tIdx], completions, results, 1)} :
           /\ heap' = s.heap
           /\ tests' = s.tests
           /\ worklist' = s.worklist
           /\ generatedPassingTests' = s.passing
           /\ validatorCalls' = s.calls
           /\ exception' = s.exception
           /\ IF s.exception = "none"
              THEN /\ promptInfos' =
                          recordPromptInfo(promptInfos, prompt,
                                           temperatures[tIdx], completions)
                   /\ pc' = "while"
              ELSE /\ promptInfos' = promptInfos
                   /\ pc' = "threw"
    /\ answersLeft' =
           IF completions # <<>> THEN answersLeft - 1 ELSE answersLeft
    /\ answers' = Append(answers, completions)
    /\ UNCHANGED <<cleanedUp,
                   functions, temperatures, workList, expired, fun, tIdx,
                   generatedPrompts, prompt, coverageRecorded, passes,
                   queries, dequeued>>

\* The same, for a provider that is not looked into.
Resolve(completions, results) ==
    /\ ResolveLoop(completions, results)
    /\ UNCHANGED <<callVars, concVars>>

\* The await of model.completions ends with any answer of the provider, and
\* the validator does anything it may for each completion.
CompletionsResolve ==
    /\ pc = "await"
    /\ \E completions \in CompletionSets :
           \E p \in {heap[prompt]} :
           \E results \in ValidatorResultsFor(p, completions) :
               Resolve(completions, results)

\* The completion model rejects (MockCompletionModel with strictResponses
\* and a prompt it does not know): the exception leaves the call and
\* runExperiment.
CompletionsReject ==
    /\ pc = "await"
    /\ exception' = "provider"
    /\ pc' = "threw"
    /\ UNCHANGED <<callVars, concVars, cleanedUp,
                   functions, temperatures, workList, expired, fun, tIdx,
                   genVars, heap, collectorVars, coverageRecorded,
                   answersLeft, logVars>>

\* The while loop ends with an empty worklist: break after a passing test,
\* the next temperature otherwise.
WorklistEmpty ==
    /\ pc = "while"
    /\ worklist = <<>>
    /\ IF breakAfterTemperature(generatedPassingTests)
       THEN /\ pc' = "runExperiment"
            /\ tIdx' = tIdx
       ELSE /\ pc' = "for"
            /\ tIdx' = tIdx + 1
    /\ UNCHANGED <<callVars, concVars, cleanedUp,
                   functions, temperatures, workList, expired, fun, genVars,
                   heap, collectorVars, coverageRecorded, exception,
                   answersLeft, logVars>>

Next ==
    \/ DeadlineExpires
    \/ RunExperimentNext
    \/ RunExperimentEnd
    \/ RunExperimentEndThrows
    \/ NextTemperature
    \/ TemperaturesDone
    \/ DequeueSeen
    \/ DequeueNew
    \/ CompletionsResolve
    \/ CompletionsReject
    \/ WorklistEmpty

Spec == Init /\ [][Next]_vars

(***************************************************************************)
(* A collector on its own: BaseTestResultCollector is constructed and      *)
(* recordPromptInfo is called on it, as any user of ITestResultCollector   *)
(* may; no run of the engine takes place.  input is the list of the calls  *)
(* still to make, each with its Prompt object (by reference: a number),    *)
(* its temperature and its completions.                                    *)
(***************************************************************************)

\* The state of an engine that is not run.
EngineIdle ==
    /\ functions = <<>>
    /\ temperatures = <<>>
    /\ workList = <<>>
    /\ expired = FALSE
    /\ pc = "done"
    /\ fun = FunF
    /\ tIdx = 1
    /\ generatedPassingTests = FALSE
    /\ generatedPrompts = <<>>
    /\ worklist = <<>>
    /\ prompt = 0
    /\ heap = <<>>
    /\ tests = <<>>
    /\ coverageRecorded = FALSE
    /\ exception = "none"
    /\ answersLeft = 0
    /\ passes = <<>>
    /\ queries = <<>>
    /\ answers = <<>>
    /\ dequeued = <<>>
    /\ validatorCalls = <<>>
    /\ cleanedUp = FALSE
    /\ generations = <<>>
    /\ running = 0
    /\ steps = <<>>

\* The variables of the engine, but for the prompt infos of its collector.
engineVars ==
    <<functions, temperatures, workList, expired, pc, fun, tIdx, genVars,
      heap, tests, coverageRecorded, exception, answersLeft, logVars,
      cleanedUp, concVars>>

\* The calls of recordPromptInfo a user may make: any Prompt object, either
\* temperature, no completions.
PromptInfoCalls ==
    [prompt : 1..MaxPromptObjects, temperature : {0, 1}, completions : {<<>>}]

\* The lists of at most n such calls.
RECURSIVE CallLists(_)
CallLists(n) ==
    IF n = 0 THEN {<<>>}
    ELSE LET shorter == CallLists(n - 1)
         IN  shorter \cup {Append(calls, c) : calls \in shorter,
                                              c \in PromptInfoCalls}

\* new BaseTestResultCollector(), and the calls that will be made on it.
InitCollector ==
    /\ EngineIdle
    /\ promptInfos = <<>>
    /\ input \in CallLists(MaxCalls)
    /\ output = <<>>

\* collector.recordPromptInfo(prompt, temperature, completions), the next
\* call of the list.
RecordPromptInfoCall ==
    /\ input # <<>>
    /\ promptInfos' = recordPromptInfo(promptInfos, Head(input).prompt,
                                       Head(input).temperature,
                                       Head(input).completions)
    /\ input' = Tail(input)
    /\ UNCHANGED <<engineVars, output>>

NextCollector == RecordPromptInfoCall

CollectorSpec == InitCollector /\ [][NextCollector]_vars

(***************************************************************************)
(* A refiner on its own: refine(original, completion, outcome) is called   *)
(* once on a prompt, outside a run of the engine.  input is the refiner    *)
(* and its arguments, with what the snippet map returned for the function  *)
(* when the prompt was made; output is empty before the call and holds     *)
(* the list of prompts returned after it.                                  *)
(***************************************************************************)

\* p-q.h(): a function without a doc comment, with a body.
FunH ==
    [packageName |-> PackageName,
     accessPath |-> PackageName \o <<".", "h">>,
     parameters |-> <<"(", ")">>,
     docComment |-> [defined |-> FALSE, text |-> <<>>],
     implementation |-> <<"h", "(", ")", "{", "}">>]

\* What a snippet map may return for a function: nothing, an empty list, a
\* list of one snippet.
SnippetMapResults ==
    {[defined |-> FALSE, list |-> <<>>],
     [defined |-> TRUE, list |-> <<>>],
     snippetMap(<<"f">>)}

\* The settings of the three prompt options.
PromptOptions ==
    [includeSnippets : BOOLEAN, includeDocComment : BOOLEAN,
     includeFunctionBody : BOOLEAN]

\* The outcomes of a test: the four kinds, with the failures the engine
\* makes itself.
TestOutcomes ==
    {Passed, Pending, Other, Failed(TestFailedMessage),
     Failed(EmptyTestMessage), Failed(InvalidSyntaxMessage)}

\* The prompt a call refines: new Prompt(fun, snippets, options), or the
\* RetryPrompt made from it for a failed completion.
RefinedPrompt(f, found, options, retry) ==
    LET p == NewPrompt(f, snippetsOrEmpty(found), options)
    IN  IF retry THEN NewRetryPrompt(p, <<"a", ";">>, TestFailedMessage)
        ELSE p

\* The calls of refine.
RefineInputs ==
    {[refiner |-> refiners[x[1]],
      found |-> x[3],
      original |-> RefinedPrompt(x[2], x[3], x[4], x[5]),
      completion |-> x[6],
      outcome |-> x[7]] :
        x \in (DOMAIN refiners) \X (FunctionUniverse \cup {FunH})
                 \X SnippetMapResults \X PromptOptions \X BOOLEAN
                 \X CompletionUniverse \X TestOutcomes}

\* The prompt and the arguments of the call are there.
InitRefine ==
    /\ EngineIdle
    /\ promptInfos = <<>>
    /\ input \in RefineInputs
    /\ output = <<>>

\* refiner.refine(original, completion, outcome)
RefineCall ==
    /\ output = <<>>
    /\ output' = <<refine(input.refiner, input.original, input.completion,
                          input.outcome)>>
    /\ UNCHANGED <<engineVars, promptInfos, input>>

NextRefine == RefineCall

RefineSpec == InitRefine /\ [][NextRefine]_vars

(***************************************************************************)
(* A syntax helper on its own: trimCompletion, closeBrackets or commentOut *)
(* is called once on a text.  input is the helper, the text and, for       *)
(* closeBrackets, what espree.parse answers if it is called (the parser is *)
(* a library: either answer is taken); output is empty before the call and *)
(* holds what was returned after it.                                       *)
(***************************************************************************)

\* The texts of at most MaxLen characters over an alphabet.
Texts(alphabet) == UNION {[1..n -> alphabet] : n \in 0..MaxLen}

\* The characters of the completions handed to trimCompletion.
TrimAlphabet == {"a", ";", "(", ")", "{", "}", "\n", " "}

\* The characters of the code handed to closeBrackets.
BracketAlphabet == {"(", ")", "{", "[", "]", "/", "\n", "a"}

\* The characters of the code handed to commentOut.
CommentAlphabet == {"a", "/", " ", "\n"}

\* The calls of the syntax helpers.
SyntaxInputs ==
    {[function |-> "trimCompletion", code |-> t, parses |-> FALSE] :
        t \in Texts(TrimAlphabet)}
    \cup {[function |-> "closeBrackets", code |-> t, parses |-> b] :
              t \in Texts(BracketAlphabet), b \in BOOLEAN}
    \cup {[function |-> "commentOut", code |-> t, parses |-> FALSE] :
              t \in Texts(CommentAlphabet)}

\* The text of the call is there.
InitSyntax ==
    /\ EngineIdle
    /\ promptInfos = <<>>
    /\ input \in SyntaxInputs
    /\ output = <<>>

\* trimCompletion(completion)
TrimCompletionCall ==
    /\ output = <<>>
    /\ input.function = "trimCompletion"
    /\ output' = <<trimCompletion(input.code)>>
    /\ UNCHANGED <<engineVars, promptInfos, input>>

\* closeBrackets(code)
CloseBracketsCall ==
    /\ output = <<>>
    /\ input.function = "closeBrackets"
    /\ output' = <<closeBracketsParsed(input.code, ScanBrackets(input.code),
                                       input.parses)>>
    /\ UNCHANGED <<engineVars, promptInfos, input>>

\* commentOut(code)
CommentOutCall ==
    /\ output = <<>>
    /\ input.function = "commentOut"
    /\ output' = <<commentOut(input.code)>>
    /\ UNCHANGED <<engineVars, promptInfos, input>>

NextSyntax ==
    \/ TrimCompletionCall
    \/ CloseBracketsCall
    \/ CommentOutCall

SyntaxSpec == InitSyntax /\ [][NextSyntax]_vars

(***************************************************************************)
(* completeTest on its own: two prompts complete the same body, and the    *)
(* two tests are recorded in a new collector, as validateCompletion        *)
(* records them (under the test, or under the body when there is none).    *)
(* input is the two prompts, the body and what espree.parse answers for    *)
(* the completed tests (they differ in the name of the package at most,    *)
(* and the parser answers alike for both); output is empty before the      *)
(* calls and holds the two results after them.                             *)
(***************************************************************************)

\* r.f(): a function of another package.
FunK ==
    [packageName |-> <<"r">>,
     accessPath |-> <<"r", ".", "f">>,
     parameters |-> <<"(", ")">>,
     docComment |-> [defined |-> FALSE, text |-> <<>>],
     implementation |-> <<>>]

\* The prompts of the four functions: with and without snippets, with every
\* setting of the options, plain or retry.
PromptsOf(retries) ==
    {RefinedPrompt(x[1], x[2], x[3], x[4]) :
        x \in {FunF, FunG, FunH, FunK}
                 \X {[defined |-> FALSE, list |-> <<>>], snippetMap(<<"f">>)}
                 \X PromptOptions \X retries}

\* The pairs of prompts and the bodies they complete.
CompleteTestInputs ==
    [first : PromptsOf(BOOLEAN), second : PromptsOf({FALSE}),
     body : CompletionUniverse, parses : BOOLEAN]

\* The prompts and the body are there, the collector is new.
InitCompleteTest ==
    /\ EngineIdle
    /\ promptInfos = <<>>
    /\ input \in CompleteTestInputs
    /\ output = <<>>

\* const testSource = prompt.completeTest(completion);
\* this.collector.recordTestInfo(testSource ?? completion, prompt, ...)
\* for the first prompt (object 1) and then the second (object 2).
CompleteTestCalls ==
    /\ output = <<>>
    /\ \E first \in {completeTest(input.first, input.body, input.parses)} :
       \E second \in {completeTest(input.second, input.body, input.parses)} :
           /\ output' = <<first, second>>
           /\ tests' =
                  recordTestInfo(
                      recordTestInfo(
                          tests,
                          IF first.defined THEN first.source ELSE input.body,
                          1, input.first.fun.accessPath).tests,
                      IF second.defined THEN second.source ELSE input.body,
                      2, input.second.fun.accessPath).tests
    /\ UNCHANGED <<functions, temperatures, workList, expired, pc, fun, tIdx,
                   genVars, heap, coverageRecorded, exception, answersLeft,
                   logVars, promptInfos, input, cleanedUp, concVars>>

NextCompleteTest == CompleteTestCalls

CompleteTestSpec == InitCompleteTest /\ [][NextCompleteTest]_vars

(***************************************************************************)
(* assemble on its own: a prompt, plain or retry, is assembled.  input is  *)
(* the prompt (a retry prompt with what espree.parse answers for its       *)
(* failing test); output is empty before the call and holds the text       *)
(* after.                                                                  *)
(***************************************************************************)

\* The doc comments of a function descriptor: none, an empty one, one with
\* a line of text, one with blank lines only.
DocComments ==
    {[defined |-> FALSE, text |-> <<>>],
     [defined |-> TRUE, text |-> <<>>],
     FunF.docComment,
     [defined |-> TRUE, text |-> <<"*", "\n", " ">>]}

\* The implementations of a function descriptor: none, one line, an empty
\* line.
Implementations == {<<>>, FunG.implementation, <<"\n">>}

\* The functions prompts are assembled for.
AssembleFunctions ==
    {[FunF EXCEPT !.docComment = x[1], !.implementation = x[2]] :
        x \in DocComments \X Implementations} \cup {FunK}

\* The failing bodies of retry prompts: empty, balanced, closing a bracket
\* it did not open, closing the test case, leaving a bracket open.
FailingBodies == {<<>>, <<"a", ";">>, <<")">>, <<"}", ")">>, <<"f", "(">>}

\* The prompts that are assembled.
AssembleInputs ==
    LET plain == {NewPrompt(x[1], snippetsOrEmpty(x[2]), x[3]) :
                     x \in AssembleFunctions
                              \X {[defined |-> FALSE, list |-> <<>>],
                                  snippetMap(<<"f">>)}
                              \X PromptOptions}
    IN  {[prompt |-> p] : p \in plain}
            \cup {[prompt |-> [NewRetryPrompt(x[1], x[2], x[3])
                                   EXCEPT !.parses = x[4]]] :
                     x \in plain \X FailingBodies
                              \X {TestFailedMessage, EmptyTestMessage}
                              \X BOOLEAN}

\* The prompt is constructed and not assembled yet.
InitAssemble ==
    /\ EngineIdle
    /\ promptInfos = <<>>
    /\ input \in AssembleInputs
    /\ output = <<>>

\* Prompt.assemble()
PromptAssembleCall ==
    /\ output = <<>>
    /\ ~input.prompt.isRetry
    /\ output' = <<assemble(input.prompt)>>
    /\ UNCHANGED <<engineVars, promptInfos, input>>

\* RetryPrompt.assemble()
RetryPromptAssembleCall ==
    /\ output = <<>>
    /\ input.prompt.isRetry
    /\ output' = <<assemble(input.prompt)>>
    /\ UNCHANGED <<engineVars, promptInfos, input>>

NextAssemble == PromptAssembleCall \/ RetryPromptAssembleCall

AssembleSpec == InitAssemble /\ [][NextAssemble]_vars

(***************************************************************************)
(* benchmark/run.ts, main: runExperiment, collector.report(), and          *)
(* validator.cleanup() in the finally block.  pc goes from "done"          *)
(* (runExperiment returned) to "reported", or to "threw" when the report   *)
(* throws; from "reported" and "threw" the finally block leads to "exit"   *)
(* (main returned) or to "rejected" (the promise of main is rejected), and *)
(* from there the catch handler leads to "exit1" (process.exit(1)).        *)
(***************************************************************************)

\* A main that calls cleanup() at the end of the try block.
finallyCleanupOnReturnOnly(threw) == ~threw

\* finally { validator.cleanup(); }: whether or not the try block threw.
finallyCleanup(threw) == TRUE

\* collector.report(); collector.getReport(); console.log(...)
CollectorReport ==
    /\ pc = "done"
    /\ pc' = "reported"
    /\ UNCHANGED <<callVars, concVars, cleanedUp, functions, temperatures, workList,
                   expired, fun, tIdx, genVars, heap, collectorVars,
                   coverageRecorded, exception, answersLeft, logVars>>

\* collector.report() throws (it writes the report with fs.writeFileSync).
CollectorReportThrows ==
    /\ pc = "done"
    /\ exception' = "report"
    /\ pc' = "threw"
    /\ UNCHANGED <<callVars, concVars, cleanedUp, functions, temperatures, workList,
                   expired, fun, tIdx, genVars, heap, collectorVars,
                   coverageRecorded, answersLeft, logVars>>

\* The finally block with a validator.cleanup() that returns: main returns
\* after a try block that returned, and its promise is rejected with the
\* exception of the try block otherwise.
MainFinally ==
    /\ pc \in {"reported", "threw"}
    /\ cleanedUp' = (cleanedUp \/ finallyCleanup(pc = "threw"))
    /\ pc' = IF pc = "threw" THEN "rejected" ELSE "exit"
    /\ UNCHANGED <<callVars, concVars, functions, temperatures, workList, expired, fun,
                   tIdx, genVars, heap, collectorVars, coverageRecorded,
                   exception, answersLeft, logVars>>

\* The finally block with a validator.cleanup() that throws (it removes the
\* coverage directories with fs.rmdirSync): the promise of main is rejected
\* with the exception of cleanup, whatever the try block did.
MainFinallyThrows ==
    /\ pc \in {"reported", "threw"}
    /\ finallyCleanup(pc = "threw")
    /\ cleanedUp' = TRUE
    /\ exception' = "cleanup"
    /\ pc' = "rejected"
    /\ UNCHANGED <<callVars, concVars, functions, temperatures, workList, expired, fun,
                   tIdx, genVars, heap, collectorVars, coverageRecorded,
                   answersLeft, logVars>>

\* The handler of .catch, in a later job than the finally block:
\* console.error(e); process.exit(1).
MainCatch ==
    /\ pc = "rejected"
    /\ pc' = "exit1"
    /\ UNCHANGED <<callVars, concVars, cleanedUp, functions, temperatures, workList,
                   expired, fun, tIdx, genVars, heap, collectorVars,
                   coverageRecorded, exception, answersLeft, logVars>>

NextMain ==
    \/ Next
    \/ CollectorReport
    \/ CollectorReportThrows
    \/ MainFinally
    \/ MainFinallyThrows
    \/ MainCatch

MainSpec == Init /\ [][NextMain]_vars

(***************************************************************************)
(* generateAndValidateTests with a provider that answers every query and   *)
(* a validator that returns: the provider gives the same completion set    *)
(* for every prompt and the validator the same outcome for every test, and *)
(* no bound of the model cuts the answers short.  input holds the two;     *)
(* the deadline is left out, it is not read during a generation.           *)
(***************************************************************************)

\* The non-empty answers the provider is good for: more than a run asks for.
MaxQueries == 256

\* p-q.f(x) with a doc comment, a body and a usage snippet: every refiner
\* applies to its prompts.
FunAll == [FunF EXCEPT !.implementation = FunG.implementation]

\* The provider's answer to every query, and the validator's outcome for
\* every test it is called for.
Policies ==
    [completions : CompletionSets,
     outcome : {Passed, Failed(TestFailedMessage), Pending}]

\* runExperiment is called with one function.
InitTermination ==
    /\ functions \in {<<FunF>>, <<FunG>>, <<FunH>>, <<FunAll>>}
    /\ temperatures \in TemperatureLists
    /\ workList = functions
    /\ expired = FALSE
    /\ pc = "runExperiment"
    /\ fun = FunF
    /\ tIdx = 1
    /\ generatedPassingTests = FALSE
    /\ generatedPrompts = <<>>
    /\ worklist = <<>>
    /\ prompt = 0
    /\ heap = <<>>
    /\ tests = <<>>
    /\ promptInfos = <<>>
    /\ coverageRecorded = FALSE
    /\ exception = "none"
    /\ answersLeft = MaxQueries
    /\ passes = <<>>
    /\ queries = <<>>
    /\ answers = <<>>
    /\ dequeued = <<>>
    /\ validatorCalls = <<>>
    /\ input \in Policies
    /\ output = <<>>
    /\ cleanedUp = FALSE
    /\ generations = <<>>
    /\ running = 0
    /\ steps = <<>>

\* The await of model.completions ends with the provider's answer; the
\* validator returns its outcome for every test it is called for.
CompletionsResolveAsAlways ==
    /\ pc = "await"
    /\ \E p \in {heap[prompt]} :
       \E results \in ValidatorResultsFor(p, input.completions) :
           /\ \A i \in DOMAIN results :
                  /\ ~results[i].threw
                  /\ input.completions[i] \notin NeverValidated
                         => results[i].outcome = input.outcome
           /\ Resolve(input.completions, results)

NextTermination ==
    \/ RunExperimentNext
    \/ RunExperimentEnd
    \/ RunExperimentEndThrows
    \/ NextTemperature
    \/ TemperaturesDone
    \/ DequeueSeen
    \/ DequeueNew
    \/ CompletionsResolveAsAlways
    \/ WorklistEmpty

TerminationSpec == InitTermination /\ [][NextTermination]_vars

(***************************************************************************)
(* Generations side by side: generateAndValidateTests is called for two    *)
(* functions on one TestGenerator (one collector, one validator, one       *)
(* provider, one temperature) without awaiting the first call.  The calls  *)
(* run on one thread: a call that runs keeps the thread until it reaches   *)
(* an await or returns.  Each step below is one statement of the loop, so  *)
(* that what may fall between two statements is left to the scheduling.    *)
(* A generation g is the record generations[g]: pc ("call", "while",       *)
(* "await", "validate", "refine", "record", "returned"), fun and the       *)
(* locals generatedPassingTests, generatedPrompts, worklist, prompt,       *)
(* completions, i (the position of the for loop over the completions) and  *)
(* testInfo (the position of the test info validateCompletion returned);   *)
(* results is what the validator does for each completion, and block       *)
(* counts the completion sets the generation was resumed with.             *)
(***************************************************************************)

\* The generations.
Generations == {1, 2}

\* The temperature of the generator.
ConcurrentTemperature == 0

\* The most completion sets one generation is followed through.
MaxBlocks == 2

\* The functions the two calls are made for: two functions, or one function
\* twice.
ConcurrentFunctions == {<<FunG, FunH>>, <<FunG, FunG>>}

\* A thread that is given up after every statement.
yieldsAtEveryStatement(next) == TRUE

\* The points where a running generation gives up the thread: the await of
\* model.completions, and the return of the call.
yieldsAt(next) == next \in {"await", "returned"}

\* The validator returns for every completion.
ReturningResultsFor(p, completions) ==
    {results \in ValidatorResultsFor(p, completions) :
        \A i \in DOMAIN completions : ~results[i].threw}

\* Two calls of generateAndValidateTests are made, none has started to run.
InitConcurrent ==
    /\ functions = <<>>
    /\ temperatures = <<ConcurrentTemperature>>
    /\ workList = <<>>
    /\ expired = FALSE
    /\ pc = "done"
    /\ fun = FunF
    /\ tIdx = 1
    /\ generatedPassingTests = FALSE
    /\ generatedPrompts = <<>>
    /\ worklist = <<>>
    /\ prompt = 0
    /\ heap = <<>>
    /\ tests = <<>>
    /\ promptInfos = <<>>
    /\ coverageRecorded = FALSE
    /\ exception = "none"
    /\ answersLeft = MaxAnswers
    /\ passes = <<>>
    /\ queries = <<>>
    /\ answers = <<>>
    /\ dequeued = <<>>
    /\ validatorCalls = <<>>
    /\ input = <<>>
    /\ output = <<>>
    /\ cleanedUp = FALSE
    /\ \E fs \in ConcurrentFunctions :
           generations =
               [g \in Generations |->
                   [pc |-> "call", fun |-> fs[g],
                    generatedPassingTests |-> FALSE,
                    generatedPrompts |-> <<>>, worklist |-> <<>>,
                    prompt |-> 0, completions |-> <<>>, results |-> <<>>,
                    i |-> 1, testInfo |-> 0, block |-> 0]]
    /\ running = 0
    /\ steps = <<>>

\* What a step of generation g leaves alone, but for the heap, the
\* collector and the calls of the validator.
ConcurrentFrame ==
    UNCHANGED <<callVars, cleanedUp, functions, temperatures, workList,
                expired, pc, fun, tIdx, genVars, coverageRecorded, exception,
                passes, queries, answers, dequeued>>

\* Generation g takes a step to the control point `next`: it has the
\* thread or the thread is free, and it keeps the thread unless it yields.
Scheduled(g, next) ==
    /\ running \in {0, g}
    /\ running' = IF yieldsAt(next) THEN 0 ELSE g

\* The record of a step of generation g in its block.
StepRecord(g, kind) ==
    [generation |-> g, block |-> generations[g].block, kind |-> kind]

\* The call starts: the head of the for loop, a fresh initial prompt.
GenCall(g) ==
    /\ generations[g].pc = "call"
    /\ Scheduled(g, "while")
    /\ heap' = Append(heap, initialPrompt(generations[g].fun))
    /\ generations' =
           [generations EXCEPT ![g].pc = "while",
                               ![g].generatedPassingTests = FALSE,
                               ![g].generatedPrompts = newGeneratedPrompts(@),
                               ![g].worklist = <<Len(heap) + 1>>]
    /\ UNCHANGED <<steps, collectorVars, validatorCalls, answersLeft>>
    /\ ConcurrentFrame

\* The head of the while loop with a prompt on the worklist: the prompt is
\* skipped if its text was generated before, and queried otherwise.
GenDequeue(g) ==
    /\ generations[g].pc = "while"
    /\ generations[g].worklist # <<>>
    /\ \E popped \in {worklistPop(generations[g].worklist)} :
       \E assembledPrompt \in {assemble(heap[popped.prompt])} :
       \E previousPrompt \in {generatedPromptsGet(
                                  generations[g].generatedPrompts,
                                  assembledPrompt)} :
           IF previousPrompt # 0
           THEN /\ Scheduled(g, "while")
                /\ heap' = [heap EXCEPT ![previousPrompt].provenance =
                                            @ \o heap[popped.prompt].provenance]
                /\ generations' =
                       [generations EXCEPT ![g].worklist = popped.rest]
           ELSE /\ Scheduled(g, "await")
                /\ heap' = heap
                /\ generations' =
                       [generations EXCEPT
                            ![g].worklist = popped.rest,
                            ![g].generatedPrompts =
                                Append(@, [key |-> assembledPrompt,
                                           prompt |-> popped.prompt]),
                            ![g].prompt = popped.prompt,
                            ![g].pc = "await"]
    /\ UNCHANGED <<steps, collectorVars, validatorCalls, answersLeft>>
    /\ ConcurrentFrame

\* The await ends: the generation goes on with the completions, at the
\* for loop over them, or at recordPromptInfo if there is none.
GenResume(g) ==
    /\ generations[g].pc = "await"
    /\ generations[g].block < MaxBlocks
    /\ \E completions \in CompletionSets :
       \E p \in {heap[generations[g].prompt]} :
       \E results \in ReturningResultsFor(p, completions) :
       \E next \in {IF completions = <<>> THEN "record" ELSE "validate"} :
           /\ completions # <<>> => answersLeft > 0
           /\ Scheduled(g, next)
           /\ answersLeft' =
                  IF completions # <<>> THEN answersLeft - 1 ELSE answersLeft
           /\ generations' =
                  [generations EXCEPT ![g].pc = next,
                                      ![g].completions = completions,
                                      ![g].results = results,
                                      ![g].i = 1,
                                      ![g].block = @ + 1]
    /\ UNCHANGED <<steps, heap, collectorVars, validatorCalls>>
    /\ ConcurrentFrame

\* const testInfo = this.validateCompletion(prompt, completion, temperature)
\* and the test for a passing outcome.
GenValidate(g) ==
    /\ generations[g].pc = "validate"
    /\ Scheduled(g, "refine")
    /\ \E v \in {validateCompletion(
                     heap, tests, validatorCalls, generations[g].prompt,
                     generations[g].completions[generations[g].i],
                     ConcurrentTemperature,
                     generations[g].results[generations[g].i])} :
           /\ tests' = v.tests
           /\ validatorCalls' = v.calls
           /\ generations' =
                  [generations EXCEPT
                       ![g].pc = "refine",
                       ![g].testInfo = v.index,
                       ![g].generatedPassingTests =
                           @ \/ v.tests[v.index].outcome.status = "PASSED"]
    /\ steps' = Append(steps, StepRecord(g, "validate"))
    /\ UNCHANGED <<heap, promptInfos, answersLeft>>
    /\ ConcurrentFrame

\* this.refinePrompts(prompt, completion, testInfo, worklist), and the end
\* of the body of the for loop.
GenRefine(g) ==
    /\ generations[g].pc = "refine"
    /\ \E next \in {IF generations[g].i < Len(generations[g].completions)
                    THEN "validate" ELSE "record"} :
       \E refined \in {refinePrompts(
                           heap, generations[g].worklist, generations[g].prompt,
                           generations[g].completions[generations[g].i],
                           tests[generations[g].testInfo],
                           <<generations[g].block, generations[g].i>>,
                           generations[g].results[generations[g].i].parses)} :
           /\ Scheduled(g, next)
           /\ heap' = refined.heap
           /\ generations' =
                  [generations EXCEPT ![g].pc = next,
                                      ![g].worklist = refined.worklist,
                                      ![g].i = @ + 1]
    /\ steps' = Append(steps, StepRecord(g, "refine"))
    /\ UNCHANGED <<collectorVars, validatorCalls, answersLeft>>
    /\ ConcurrentFrame

\* this.collector.recordPromptInfo(prompt, temperature, completions)
GenRecord(g) ==
    /\ generations[g].pc = "record"
    /\ Scheduled(g, "while")
    /\ promptInfos' = recordPromptInfo(promptInfos, generations[g].prompt,
                                       ConcurrentTemperature,
                                       generations[g].completions)
    /\ generations' = [generations EXCEPT ![g].pc = "while"]
    /\ steps' = Append(steps, StepRecord(g, "record"))
    /\ UNCHANGED <<heap, tests, validatorCalls, answersLeft>>
    /\ ConcurrentFrame

\* The while loop ends with an empty worklist, and with it the for loop
\* over the one temperature: the call returns.
GenReturn(g) ==
    /\ generations[g].pc = "while"
    /\ generations[g].worklist = <<>>
    /\ Scheduled(g, "returned")
    /\ generations' = [generations EXCEPT ![g].pc = "returned"]
    /\ UNCHANGED <<steps, heap, collectorVars, validatorCalls, answersLeft>>
    /\ ConcurrentFrame

NextConcurrent ==
    \E g \in Generations :
        \/ GenCall(g)
        \/ GenDequeue(g)
        \/ GenResume(g)
        \/ GenValidate(g)
        \/ GenRefine(g)
        \/ GenRecord(g)
        \/ GenReturn(g)

ConcurrentSpec == InitConcurrent /\ [][NextConcurrent]_vars

(***************************************************************************)
(* The completion providers: Codex.completions and                         *)
(* MockCompletionModel.completions, and the engine run on top of them.     *)
(* input is the provider the generator was constructed with, output the    *)
(* log of whether the provider failed at each query: for Codex, whether    *)
(* this.query threw (a request that failed, a status other than 200, an    *)
(* empty response, an error of the upstream service); for the mock model,  *)
(* whether the prompt is absent from the completion map.                   *)
(***************************************************************************)

\* new Set<string>() filled with result.add in the order of `texts`: a text
\* that is present is not added again.
RECURSIVE AddAll(_, _)
AddAll(set, texts) ==
    IF texts = <<>> THEN set
    ELSE AddAll(IF \E i \in DOMAIN set : set[i] = Head(texts)
                THEN set ELSE Append(set, Head(texts)),
                Tail(texts))

\* A Codex.completions that lets the failure of the query through.
CodexCompletionsRethrowing(response) ==
    IF response.failed
    THEN [threw |-> TRUE, completions |-> <<>>]
    ELSE [threw |-> FALSE,
          completions |->
              AddAll(<<>>, [i \in DOMAIN response.texts |->
                               trimCompletion(response.texts[i])])]

\* Codex.completions: the trimmed completions of the query, or the empty
\* set (and a warning) if the query threw.
CodexCompletions(response) ==
    IF response.failed
    THEN [threw |-> FALSE, completions |-> <<>>]
    ELSE [threw |-> FALSE,
          completions |->
              AddAll(<<>>, [i \in DOMAIN response.texts |->
                               trimCompletion(response.texts[i])])]

\* MockCompletionModel.completions: the completions stored for the prompt
\* and the temperature; for a prompt that is not found an exception with
\* strictResponses, and a warning and the empty set without.
MockCompletions(strictResponses, response) ==
    IF response.failed
    THEN [threw |-> strictResponses, completions |-> <<>>]
    ELSE [threw |-> FALSE, completions |-> AddAll(<<>>, response.texts)]

\* The providers a generator is constructed with.
Providers ==
    {[model |-> "Codex", strictResponses |-> FALSE],
     [model |-> "MockCompletionModel", strictResponses |-> FALSE],
     [model |-> "MockCompletionModel", strictResponses |-> TRUE]}

\* ICompletionModel.completions of the provider.
ProviderCompletions(provider, response) ==
    IF provider.model = "Codex"
    THEN CodexCompletions(response)
    ELSE MockCompletions(provider.strictResponses, response)

\* The texts the upstream service answers with: a statement, a statement
\* followed by a bracket that closes the enclosing scope, such a bracket
\* alone.
RawCompletionUniverse == {<<"a", ";">>, <<"a", ";", "}">>, <<")">>}

\* What happens inside a provider at a query: a failure, or texts, none
\* included (the choices of the upstream service, which may be the empty
\* array; the completions stored in the mock model, which may be none).
Responses(provider) ==
    {[failed |-> TRUE, texts |-> <<>>]}
        \cup {[failed |-> FALSE, texts |-> texts] :
                 texts \in IF provider.model = "Codex"
                           THEN UNION {[1..n -> RawCompletionUniverse] :
                                           n \in 0..MaxCompletions}
                           ELSE CompletionSets}

\* runExperiment is called with one function and a generator on one of the
\* providers.
InitProvider ==
    /\ functions = <<FunG>>
    /\ temperatures \in TemperatureLists
    /\ workList = functions
    /\ expired = FALSE
    /\ pc = "runExperiment"
    /\ fun = FunF
    /\ tIdx = 1
    /\ generatedPassingTests = FALSE
    /\ generatedPrompts = <<>>
    /\ worklist = <<>>
    /\ prompt = 0
    /\ heap = <<>>
    /\ tests = <<>>
    /\ promptInfos = <<>>
    /\ coverageRecorded = FALSE
    /\ exception = "none"
    /\ answersLeft = MaxAnswers
    /\ passes = <<>>
    /\ queries = <<>>
    /\ answers = <<>>
    /\ dequeued = <<>>
    /\ validatorCalls = <<>>
    /\ input \in Providers
    /\ output = <<>>
    /\ cleanedUp = FALSE
    /\ generations = <<>>
    /\ running = 0
    /\ steps = <<>>

\* The await of model.completions ends: the provider resolves with a set of
\* completions, which the loop goes through, or it rejects, and the
\* exception leaves the call and runExperiment.
ProviderAnswers ==
    /\ pc = "await"
    /\ \E response \in Responses(input) :
       \E answer \in {ProviderCompletions(input, response)} :
           /\ output' = Append(output, response.failed)
           /\ IF answer.threw
              THEN /\ exception' = "provider"
                   /\ pc' = "threw"
                   /\ UNCHANGED <<cleanedUp, functions, temperatures,
                                  workList, expired, fun, tIdx, genVars, heap,
                                  collectorVars, coverageRecorded,
                                  answersLeft, logVars>>
              ELSE \E p \in {heap[prompt]} :
                   \E results \in ValidatorResultsFor(p, answer.completions) :
                       ResolveLoop(answer.completions, results)
    /\ UNCHANGED <<input, concVars>>

NextProvider ==
    \/ RunExperimentNext
    \/ RunExperimentEnd
    \/ RunExperimentEndThrows
    \/ DeadlineExpires
    \/ NextTemperature
    \/ TemperaturesDone
    \/ DequeueSeen
    \/ DequeueNew
    \/ ProviderAnswers
    \/ WorklistEmpty

ProviderSpec == InitProvider /\ [][NextProvider]_vars

(***************************************************************************)
(* The engine on a provider that does not trim its completions (any        *)
(* ICompletionModel but Codex, such as MockCompletionModel): completions   *)
(* that differ in leading whitespace only.                                 *)
(***************************************************************************)

\* The completions of such a provider: a statement, and the statement
\* indented as completeTest indents the first line of a body.
WhitespaceCompletionUniverse ==
    {<<"a", ";">>,
     <<" ", " ", " ", " ", " ", " ", " ", " ", "a", ";">>}

\* Its answers: a Set<string>, iterated in insertion order.
WhitespaceCompletionSets ==
    {cs \in UNION {[1..n -> WhitespaceCompletionUniverse] :
                      n \in 0..MaxCompletions} :
        \A i, j \in DOMAIN cs : i # j => cs[i] # cs[j]}

\* The await of model.completions ends with any answer of the provider, and
\* the validator does anything it may for each completion.
WhitespaceCompletionsResolve ==
    /\ pc = "await"
    /\ \E completions \in WhitespaceCompletionSets :
           \E p \in {heap[prompt]} :
           \E results \in ValidatorResultsFor(p, completions) :
               Resolve(completions, results)

NextWhitespace ==
    \/ DeadlineExpires
    \/ RunExperimentNext
    \/ RunExperimentEnd
    \/ RunExperimentEndThrows
    \/ NextTemperature
    \/ TemperaturesDone
    \/ DequeueSeen
    \/ DequeueNew
    \/ WhitespaceCompletionsResolve
    \/ CompletionsReject
    \/ WorklistEmpty

WhitespaceSpec == Init /\ [][NextWhitespace]_vars

(***************************************************************************)
(* The engine on a provider that does not trim its completions (any        *)
(* ICompletionModel but Codex, such as MockCompletionModel): completions   *)
(* that complete to the test with an empty body.                           *)
(***************************************************************************)

\* The completions: the empty one, and a line break followed by the closing
\* brackets of the test header, which completeTest completes to the source
\* of the empty completion.
EmptyTestCompletionUniverse ==
    {<<>>, <<"\n", " ", " ", " ", " ", "}", ")">>}

\* The answers of the provider: a Set<string>, iterated in insertion order.
EmptyTestCompletionSets ==
    {cs \in UNION {[1..n -> EmptyTestCompletionUniverse] :
                      n \in 0..MaxCompletions} :
        \A i, j \in DOMAIN cs : i # j => cs[i] # cs[j]}

\* The await of model.completions ends with any answer of the provider, and
\* the validator does anything it may for each completion.
EmptyTestCompletionsResolve ==
    /\ pc = "await"
    /\ \E completions \in EmptyTestCompletionSets :
           \E p \in {heap[prompt]} :
           \E results \in ValidatorResultsFor(p, completions) :
               Resolve(completions, results)

NextEmptyTest ==
    \/ DeadlineExpires
    \/ RunExperimentNext
    \/ RunExperimentEnd
    \/ RunExperimentEndThrows
    \/ NextTemperature
    \/ TemperaturesDone
    \/ DequeueSeen
    \/ DequeueNew
    \/ EmptyTestCompletionsResolve
    \/ CompletionsReject
    \/ WorklistEmpty

EmptyTestSpec == Init /\ [][NextEmptyTest]_vars

(***************************************************************************)
(* Reading the records of a run.                                           *)
(***************************************************************************)

\* The elements of a sequence.
Range(seq) == {seq[i] : i \in DOMAIN seq}

\* The position of an element that occurs once in a sequence.
PositionIn(seq, x) == CHOOSE i \in DOMAIN seq : seq[i] = x

\* The prompts that were queried.
Queried == {queries[q].prompt : q \in DOMAIN queries}

\* The number of the query of a queried prompt.
QueryOf(h) == CHOOSE q \in DOMAIN queries : queries[q].prompt = h

\* The prompts that have a prompt info.
WithPromptInfo == {promptInfos[i].prompt : i \in DOMAIN promptInfos}

\* The id of the prompt info of a prompt.
PromptInfoId(h) ==
    promptInfos[CHOOSE i \in DOMAIN promptInfos : promptInfos[i].prompt = h].id

\* The prompts made by a refiner (the others are initial prompts).
Refined == {h \in DOMAIN heap : heap[h].origin # <<0, 0>>}

\* The provenance record a refined prompt got when it was enqueued.
OwnRecord(h) == heap[h].provenance[1]

\* The position of a refiner in the list of refiners.
RefinerIndex(name) == CHOOSE k \in DOMAIN refiners : refiners[k] = name

\* The temperature pass a prompt belongs to: the pass of the query whose
\* completion it refines.
PassOf(h) == queries[heap[h].origin[1]].pass

(***************************************************************************)
(* C1                                                                      *)
(***************************************************************************)

\* C1: in every reachable state of the collector no two distinct test infos
\* have the same source (the assembled test, or the raw completion when the
\* assembly failed).
TestSourcesDistinct ==
    \A i, j \in DOMAIN tests :
        i # j => tests[i].testSource # tests[j].testSource

\* A test info reached from two prompts, next to a test info whose source is
\* a raw completion.
TestSourcesDistinctWitness ==
    /\ \E i \in DOMAIN tests : Len(tests[i].prompts) >= 2
    /\ \E j \in DOMAIN tests : tests[j].testSource = <<")">>

(***************************************************************************)
(* C2                                                                      *)
(***************************************************************************)

\* The validator was called at most once for each test source.
ValidatedOncePerSource ==
    \A i, j \in DOMAIN validatorCalls :
        i # j => validatorCalls[i].testSource # validatorCalls[j].testSource

\* A step leaves the source and the outcome of every test info that exists
\* alone, only appends to its prompts, and does not call the validator for
\* a source that was recorded before.
MergeLeavesOutcome ==
    /\ Len(tests') >= Len(tests)
    /\ \A i \in DOMAIN tests :
        /\ tests'[i].testSource = tests[i].testSource
        /\ tests'[i].outcome = tests[i].outcome
        /\ Len(tests'[i].prompts) >= Len(tests[i].prompts)
        /\ SubSeq(tests'[i].prompts, 1, Len(tests[i].prompts)) = tests[i].prompts
        /\ \A c \in DOMAIN validatorCalls' :
               c > Len(validatorCalls)
                   => validatorCalls'[c].testSource # tests[i].testSource

\* C2: over the lifetime of a collector the validator is invoked at most
\* once per distinct test source; a prompt that yields a source recorded
\* before is appended to the existing test info, without a call of the
\* validator and without a change of the recorded outcome.
ValidatorOncePerSource ==
    []ValidatedOncePerSource /\ [][MergeLeavesOutcome]_vars

\* A test info that the validator passed once and that two prompts reached.
ValidatorOncePerSourceWitness ==
    \E i \in DOMAIN tests :
        /\ Len(tests[i].prompts) >= 2
        /\ tests[i].outcome.status = "PASSED"
        /\ \E c \in DOMAIN validatorCalls :
               validatorCalls[c].testSource = tests[i].testSource

(***************************************************************************)
(* C3                                                                      *)
(***************************************************************************)

\* The text the prompt of the i-th prompt info assembled to when it was
\* handed to the completion model.
PromptInfoText(i) == queries[QueryOf(promptInfos[i].prompt)].text

\* The temperature pass the prompt of the i-th prompt info was queried in.
PromptInfoPass(i) == queries[QueryOf(promptInfos[i].prompt)].pass

\* C3 as claimed: no two distinct prompt infos hold prompts that assemble
\* to the same text, for any list of temperatures.
PromptInfoTextsDistinct ==
    \A i, j \in DOMAIN promptInfos :
        i < j => PromptInfoText(i) # PromptInfoText(j)

\* C3, amended: the prompt infos of prompts queried in one temperature pass
\* of one call of generateAndValidateTests assemble to distinct texts.
PromptInfoTextsDistinctPerPass ==
    \A i, j \in DOMAIN promptInfos :
        (i < j /\ PromptInfoPass(i) = PromptInfoPass(j))
            => PromptInfoText(i) # PromptInfoText(j)

\* A refinement was skipped as generated before in a pass that recorded two
\* prompt infos, and a later pass recorded the initial prompt again.
PromptInfoTextsDistinctPerPassWitness ==
    /\ \E h \in Range(dequeued) : h \notin Queried
    /\ \E i, j \in DOMAIN promptInfos :
        i < j /\ PromptInfoPass(i) = PromptInfoPass(j)
    /\ \E i, j \in DOMAIN promptInfos :
        /\ PromptInfoPass(i) # PromptInfoPass(j)
        /\ PromptInfoText(i) = PromptInfoText(j)

(***************************************************************************)
(* C4                                                                      *)
(***************************************************************************)

\* The passes of one call take the temperatures of the list in the order
\* supplied, and every query is issued at the temperature of its pass.
TemperaturesInOrder ==
    /\ \A k \in DOMAIN passes :
        /\ passes[k].temperature = temperatures[passes[k].tIdx]
        /\ passes[k].tIdx =
               IF k > 1 /\ passes[k - 1].call = passes[k].call
               THEN passes[k - 1].tIdx + 1
               ELSE 1
    /\ \A q \in DOMAIN queries :
        queries[q].temperature = passes[queries[q].pass].temperature

\* C4: temperatures are processed in the order the caller supplies, and
\* once the validator passed a test in a pass of a function, no later pass
\* of that function begins: no prompt is dequeued and no completion query
\* is issued for it at a later temperature.
TemperatureOrderAndPassSkipping ==
    /\ TemperaturesInOrder
    /\ \A v \in DOMAIN validatorCalls :
        (~validatorCalls[v].threw
             /\ validatorCalls[v].outcome.status = "PASSED")
            => /\ \A k \in DOMAIN passes :
                   k > validatorCalls[v].pass
                       => passes[k].call # passes[validatorCalls[v].pass].call
               /\ \A q \in DOMAIN queries :
                   queries[q].pass > validatorCalls[v].pass
                       => passes[queries[q].pass].call
                              # passes[validatorCalls[v].pass].call

\* A run over two temperatures ended after a test passed at the first one.
TemperatureOrderAndPassSkippingWitness ==
    /\ pc = "done"
    /\ Len(temperatures) = 2
    /\ \E v \in DOMAIN validatorCalls :
        /\ validatorCalls[v].outcome.status = "PASSED"
        /\ passes[validatorCalls[v].pass].tIdx = 1

(***************************************************************************)
(* C5                                                                      *)
(***************************************************************************)

\* A step that dequeues a prompt dequeues the prompt enqueued last among
\* those not dequeued yet (prompts are numbered as they are made).
DequeuesLastEnqueued ==
    dequeued' # dequeued
        => LET pending == DOMAIN heap \ Range(dequeued)
           IN  /\ pending # {}
               /\ dequeued' =
                      Append(dequeued,
                             CHOOSE h \in pending : \A g \in pending : g <= h)

\* Of two refinements of one completion, the one of the later refiner is
\* dequeued first, queried first when both are queried, and gets the
\* smaller prompt-info id when both get one.
LaterRefinerFirst ==
    \A a, b \in Refined :
        (/\ heap[a].origin = heap[b].origin
         /\ RefinerIndex(OwnRecord(a).refiner) < RefinerIndex(OwnRecord(b).refiner))
            => /\ a < b
               /\ a \in Range(dequeued)
                      => /\ b \in Range(dequeued)
                         /\ PositionIn(dequeued, b) < PositionIn(dequeued, a)
               /\ (a \in Queried /\ b \in Queried) => QueryOf(b) < QueryOf(a)
               /\ (a \in WithPromptInfo /\ b \in WithPromptInfo)
                      => PromptInfoId(b) < PromptInfoId(a)

\* C5 as claimed, the part on the queries: of two refinements of one
\* completion, when the one of the earlier refiner is queried (has a prompt
\* info), the one of the later refiner was queried (got its prompt info)
\* before it.
LaterRefinerQueriedFirst ==
    \A a, b \in Refined :
        (/\ heap[a].origin = heap[b].origin
         /\ RefinerIndex(OwnRecord(a).refiner) < RefinerIndex(OwnRecord(b).refiner))
            => /\ a \in Queried
                      => b \in Queried /\ QueryOf(b) < QueryOf(a)
               /\ a \in WithPromptInfo
                      => /\ b \in WithPromptInfo
                         /\ PromptInfoId(b) < PromptInfoId(a)

\* C5, amended: the worklist is LIFO; the refinements of one completion are
\* enqueued in the order SnippetIncluder, RetryWithError, DocCommentIncluder,
\* FunctionBodyIncluder, so among them the prompt of the later refiner is
\* dequeued first; a dequeued prompt whose text was generated before in the
\* pass is skipped, so the prompt of the later refiner is queried and gets
\* its prompt-info id first only when both prompts are queried.
WorklistIsLifo == []LaterRefinerFirst /\ [][DequeuesLastEnqueued]_vars

\* Two refinements of one completion, by different refiners, that were both
\* queried and both got a prompt info; and two of which the one of the
\* earlier refiner was queried after the one of the later refiner was
\* dequeued and skipped.
WorklistIsLifoWitness ==
    /\ \E a, b \in Refined :
        /\ heap[a].origin = heap[b].origin
        /\ RefinerIndex(OwnRecord(a).refiner) < RefinerIndex(OwnRecord(b).refiner)
        /\ a \in WithPromptInfo
        /\ b \in WithPromptInfo
    /\ \E a, b \in Refined :
        /\ heap[a].origin = heap[b].origin
        /\ RefinerIndex(OwnRecord(a).refiner) < RefinerIndex(OwnRecord(b).refiner)
        /\ a \in WithPromptInfo
        /\ b \in Range(dequeued) \ Queried

(***************************************************************************)
(* C6                                                                      *)
(***************************************************************************)

\* C6: no prompt holds a provenance record whose originalPrompt is the
\* prompt itself, and the provenance of every initial prompt stays empty,
\* also for a function whose doc comment is defined but empty.
ProvenanceAcyclic ==
    \A h \in DOMAIN heap :
        /\ \A r \in DOMAIN heap[h].provenance :
               heap[h].provenance[r].originalPrompt # h
        /\ h \notin Refined => heap[h].provenance = <<>>

(***************************************************************************)
(* C7                                                                      *)
(***************************************************************************)

\* The refinements of the pass of h that assemble to the text of h.
SameTextGroup(h) ==
    {g \in Refined : PassOf(g) = PassOf(h) /\ assemble(heap[g]) = assemble(heap[h])}

\* The provenance records the prompts of a group got when they were
\* enqueued, in the order the prompts were dequeued.
RECURSIVE RecordsInDequeueOrder(_, _)
RecordsInDequeueOrder(group, i) ==
    IF i > Len(dequeued) THEN <<>>
    ELSE (IF dequeued[i] \in group /\ dequeued[i] \notin Queried
          THEN <<OwnRecord(dequeued[i])>>
          ELSE <<>>) \o RecordsInDequeueOrder(group, i + 1)

\* C7: when a temperature pass has ended, of the refinements of the pass
\* that assemble to one text exactly one was queried, the one dequeued
\* first, and its provenance is its own record followed by the records of
\* the others in the order they were dequeued.
DuplicatesMerged ==
    (pc = "while" /\ worklist = <<>>)
        => \A h \in Refined :
               PassOf(h) = Len(passes)
                   => \E g \in SameTextGroup(h) :
                          /\ SameTextGroup(h) \cap Queried = {g}
                          /\ \A d \in SameTextGroup(h) :
                                 PositionIn(dequeued, g) <= PositionIn(dequeued, d)
                          /\ heap[g].provenance =
                                 <<OwnRecord(g)>>
                                     \o RecordsInDequeueOrder(SameTextGroup(h), 1)

(***************************************************************************)
(* C8                                                                      *)
(***************************************************************************)

\* C8: no retry prompt has a provenance record whose originalPrompt is a
\* retry prompt.
RetryNonChaining ==
    \A h \in DOMAIN heap :
        heap[h].isRetry
            => \A r \in DOMAIN heap[h].provenance :
                   ~heap[heap[h].provenance[r].originalPrompt].isRetry

\* A retry prompt was queried and a completion of it failed: a refinement
\* of the retry prompt names a failed test.
RetryNonChainingWitness ==
    \E h \in Refined :
        /\ heap[OwnRecord(h).originalPrompt].isRetry
        /\ tests[OwnRecord(h).testId + 1].outcome.status = "FAILED"

(***************************************************************************)
(* C9                                                                      *)
(***************************************************************************)

\* C9 as claimed: once the deadline has expired no further prompt is
\* dequeued and no further completion query is issued.
NoDequeueAfterDeadline ==
    [][expired => (dequeued' = dequeued /\ queries' = queries)]_vars

\* A step of runExperiment that sees the deadline expired ends the run (by
\* return, or with the exception of computeCoverageSummary): no function is
\* taken off the workList, and the tests and prompt infos recorded stay as
\* they are.
DeadlineEndsRun ==
    (pc = "runExperiment" /\ expired)
        => /\ pc' \in {"done", "threw"}
           /\ pc' = "threw" => exception' = "coverage"
           /\ workList' = workList
           /\ tests' = tests
           /\ promptInfos' = promptInfos
           /\ passes' = passes
           /\ queries' = queries
           /\ dequeued' = dequeued

\* C9, amended: runExperiment checks the deadline before it takes each
\* function off its workList; when it finds the deadline expired it starts
\* no further generation, the functions left are discarded and every test
\* info and prompt info recorded is retained.  A generation that is running
\* is not interrupted.
DeadlineCheckedPerFunction == [][DeadlineEndsRun]_vars

\* The run ended on the deadline with a function left on the workList and
\* with the tests and prompt infos of the generation before it recorded.
DeadlineCheckedPerFunctionWitness ==
    /\ pc = "done"
    /\ expired
    /\ workList # <<>>
    /\ tests # <<>>
    /\ promptInfos # <<>>

(***************************************************************************)
(* C10                                                                     *)
(***************************************************************************)

\* C10 as claimed: for any behaviour of the completion provider and of the
\* validator, no exception leaves generateAndValidateTests.
NoExceptionLeaves == exception \notin {"provider", "validator"}

\* C10, amended: the errors the engine finds itself (an empty completion, a
\* completion that cannot be completed to a test) never throw, they are
\* recorded as FAILED outcomes; an exception leaves the engine only when the
\* completion provider rejects or the validator throws (validateTest in a
\* generation; computeCoverageSummary after the last one, in runExperiment).
OnlyForeignExceptionsLeave ==
    /\ exception \in {"none", "provider", "validator", "coverage"}
    /\ pc = "threw" <=> exception # "none"
    /\ exception = "coverage" => workList = <<>> \/ expired
    /\ \A i \in DOMAIN tests :
        (\A c \in DOMAIN validatorCalls :
             validatorCalls[c].testSource # tests[i].testSource)
            => /\ tests[i].outcome.status = "FAILED"
               /\ tests[i].outcome.message
                      \in {EmptyTestMessage, InvalidSyntaxMessage}

\* The validator threw after the engine recorded an empty completion and an
\* unrepairable one as failures.
OnlyForeignExceptionsLeaveWitness ==
    /\ pc = "threw"
    /\ exception = "validator"
    /\ \E i \in DOMAIN tests :
        tests[i].outcome = Failed(EmptyTestMessage)
    /\ \E i \in DOMAIN tests :
        tests[i].outcome = Failed(InvalidSyntaxMessage)

(***************************************************************************)
(* C11                                                                     *)
(***************************************************************************)

\* The completions a prompt was answered with, as its prompt info has them:
\* the pairs <<k, i>> of a prompt info and a position in its completions.
Answered ==
    {ki \in (DOMAIN promptInfos) \X (1..MaxCompletions) :
        ki[2] <= Len(promptInfos[ki[1]].completions)}

\* The completion at such a pair, and the prompt that was answered.
CompletionAt(ki) == promptInfos[ki[1]].completions[ki[2]]
PromptAt(ki) == promptInfos[ki[1]].prompt

\* The prompts that were made by refining the completion at such a pair.
RefinedFrom(ki) ==
    {h \in Refined : heap[h].origin = <<QueryOf(PromptAt(ki)), ki[2]>>}

\* Prompt.completeTest for the prompts of every function and every
\* completion (the test is assembled from the imports and stub headers,
\* which depend on the function's package only), as a table, with every
\* answer the parser may give.
CompleteTestTable ==
    UNION {{<<fc[1], fc[2], completeTest(initialPrompt(fc[1]), fc[2], v)>> :
               v \in ParserVerdicts(initialPrompt(fc[1]), fc[2])} :
           fc \in FunctionUniverse \X CompletionUniverse}

\* What completeTest returns for a prompt of function f and completion c
\* (the parser has one answer for each completion of the universe).
CompleteTestOf(f, c) ==
    (CHOOSE e \in CompleteTestTable : e[1] = f /\ e[2] = c)[3]

\* The source of the test with an empty body, for the function of prompt p.
EmptyTestSource(p) == CompleteTestOf(heap[p].fun, <<>>).source

\* The calls of the validator for the test with an empty body.
EmptyTestCalls(p) ==
    {c \in DOMAIN validatorCalls :
        validatorCalls[c].testSource = EmptyTestSource(p)}

\* C11 as claimed: an empty completion is recorded as a test with outcome
\* Failed and message "Empty test", the validator not being called for the
\* test, and RetryWithError has made a retry prompt with the empty
\* completion and that message.
EmptyCompletionAlwaysFails ==
    \A ki \in Answered :
        CompletionAt(ki) = <<>> =>
            /\ \E t \in DOMAIN tests :
                   /\ tests[t].testSource = EmptyTestSource(PromptAt(ki))
                   /\ PromptAt(ki) \in Range(tests[t].prompts)
                   /\ tests[t].outcome = Failed(EmptyTestMessage)
            /\ EmptyTestCalls(PromptAt(ki)) = {}
            /\ \E h \in RefinedFrom(ki) :
                   /\ heap[h].isRetry
                   /\ heap[h].body = <<>>
                   /\ heap[h].err = EmptyTestMessage
                   /\ OwnRecord(h).refiner = "RetryWithError"

\* The completion test info t was created for: the first completion, in the
\* answer to the first prompt of the test info, that is recorded under its
\* source.
FirstCompletionOf(t) ==
    LET p == tests[t].prompts[1]
        answer == answers[QueryOf(p)]
        recorded(i) ==
            \E v \in ParserVerdicts(heap[p], answer[i]) :
                tests[t].testSource =
                    IF completeTest(heap[p], answer[i], v).defined
                    THEN completeTest(heap[p], answer[i], v).source
                    ELSE answer[i]
    IN  answer[CHOOSE i \in DOMAIN answer :
                   recorded(i) /\ \A j \in 1..(i - 1) : ~recorded(j)]

\* C11, amended: an empty completion is recorded under the source of the
\* test with an empty body.  If the test info was created for an empty
\* completion its outcome is Failed with message "Empty test" and the
\* validator is never called for it; if it was created for another
\* completion, the validator was called for that one and the empty
\* completion leaves the outcome it gave.  The loop is not aborted: each
\* refiner has made its prompt exactly if it applies to the prompt, the
\* empty completion and the outcome of the test info; RetryWithError has
\* made a retry prompt, with the empty completion and the message of that
\* outcome, exactly if the prompt is no retry prompt and the outcome is
\* Failed.
EmptyCompletionFailsAndRefines ==
    /\ exception # "engine"
    /\ \A ki \in Answered :
        CompletionAt(ki) = <<>> =>
            \E t \in DOMAIN tests :
                /\ tests[t].testSource = EmptyTestSource(PromptAt(ki))
                /\ PromptAt(ki) \in Range(tests[t].prompts)
                /\ IF FirstCompletionOf(t) = <<>>
                   THEN /\ tests[t].outcome = Failed(EmptyTestMessage)
                        /\ EmptyTestCalls(PromptAt(ki)) = {}
                   ELSE \E c \in EmptyTestCalls(PromptAt(ki)) :
                            /\ EmptyTestCalls(PromptAt(ki)) = {c}
                            /\ ~validatorCalls[c].threw
                            /\ tests[t].outcome = validatorCalls[c].outcome
                /\ \A k \in DOMAIN refiners :
                       refine(refiners[k], heap[PromptAt(ki)], <<>>,
                              tests[t].outcome) # <<>>
                           <=> \E h \in RefinedFrom(ki) :
                                   OwnRecord(h).refiner = refiners[k]
                /\ \A h \in RefinedFrom(ki) :
                       OwnRecord(h).refiner = "RetryWithError"
                           => /\ ~heap[PromptAt(ki)].isRetry
                              /\ tests[t].outcome.status = "FAILED"
                              /\ heap[h].isRetry
                              /\ heap[h].body = <<>>
                              /\ heap[h].err = tests[t].outcome.message
                /\ (/\ ~heap[PromptAt(ki)].isRetry
                    /\ tests[t].outcome.status = "FAILED")
                       => \E h \in RefinedFrom(ki) :
                              OwnRecord(h).refiner = "RetryWithError"

\* A prompt was answered with the completion that closes the test header
\* and then the empty one: the validator failed the test, the empty
\* completion was recorded under it, and the retry prompt made for the
\* empty completion has the message of the validator.  A later prompt was
\* answered with the empty completion as well.
EmptyCompletionFailsAndRefinesWitness ==
    /\ \E ki \in Answered :
        /\ ki[2] = 2
        /\ CompletionAt(ki) = <<>>
        /\ \E t \in DOMAIN tests :
               /\ tests[t].testSource = EmptyTestSource(PromptAt(ki))
               /\ tests[t].outcome = Failed(TestFailedMessage)
               /\ Len(tests[t].prompts) >= 2
        /\ \E h \in RefinedFrom(ki) :
               heap[h].isRetry /\ heap[h].err = TestFailedMessage
    /\ \E ki \in Answered :
        /\ CompletionAt(ki) = <<>>
        /\ heap[PromptAt(ki)].isRetry

(***************************************************************************)
(* C12                                                                     *)
(***************************************************************************)

\* The tests completeTest can assemble.
CompletedSources ==
    {e[3].source : e \in {d \in CompleteTestTable : d[3].defined}}

\* C12: a non-empty completion that completeTest cannot repair is recorded
\* with the raw completion as its source, outcome Failed and message
\* "Invalid syntax"; the validator is only ever called with a test that
\* completeTest assembled; the refiners run for the failure as for any other
\* (each includer that applies has made its prompt, and RetryWithError a
\* retry prompt with the completion and that message).
InvalidCompletionFailsAndRefines ==
    /\ \A c \in DOMAIN validatorCalls :
           validatorCalls[c].testSource \in CompletedSources
    /\ \A ki \in Answered :
        LET p == PromptAt(ki)
            completion == CompletionAt(ki)
        IN  (completion # <<>> /\ ~CompleteTestOf(heap[p].fun, completion).defined)
            =>  /\ \E t \in DOMAIN tests :
                       /\ tests[t].testSource = completion
                       /\ p \in Range(tests[t].prompts)
                       /\ tests[t].outcome = Failed(InvalidSyntaxMessage)
                /\ \A k \in DOMAIN refiners :
                       refine(refiners[k], heap[p], completion,
                              Failed(InvalidSyntaxMessage)) # <<>>
                           <=> \E h \in RefinedFrom(ki) :
                                  OwnRecord(h).refiner = refiners[k]
                /\ ~heap[p].isRetry
                       => \E h \in RefinedFrom(ki) :
                              /\ heap[h].isRetry
                              /\ heap[h].body = completion
                              /\ heap[h].err = InvalidSyntaxMessage
                              /\ OwnRecord(h).refiner = "RetryWithError"

\* A completion that cannot be repaired was recorded as a failed test; an
\* includer and RetryWithError refined the prompt for it, and the retry
\* prompt was queried, while the validator was called for another test.
InvalidCompletionFailsAndRefinesWitness ==
    /\ validatorCalls # <<>>
    /\ \E ki \in Answered :
        /\ CompletionAt(ki) = <<")">>
        /\ \E t \in DOMAIN tests :
               /\ tests[t].testSource = <<")">>
               /\ tests[t].outcome = Failed(InvalidSyntaxMessage)
        /\ \E h \in RefinedFrom(ki) \cap Queried :
               heap[h].isRetry /\ heap[h].err = InvalidSyntaxMessage
        /\ \E h \in RefinedFrom(ki) :
               OwnRecord(h).refiner = "DocCommentIncluder"

(***************************************************************************)
(* C13                                                                     *)
(***************************************************************************)

\* C13 as stated: once a passing test has been generated at the current
\* temperature, no further prompt is dequeued and no further completion
\* query is issued for the function.
NoDequeueAfterPass ==
    [][generatedPassingTests => (dequeued' = dequeued /\ queries' = queries)]_vars

\* A step of the loops of generateAndValidateTests: the while loop goes on
\* by dequeuing as long as the worklist is not empty, whatever was
\* generated; it is left with an empty worklist only, to the caller after a
\* passing test and to the next temperature otherwise; after a passing test
\* no further pass is begun for the function.
PassEndsWithWorklist ==
    /\ (pc = "while" /\ worklist # <<>> /\ pc' # "while")
           => (pc' = "await" /\ Len(queries') = Len(queries) + 1)
    /\ (pc = "while" /\ worklist # <<>> /\ expired' = expired)
           => Len(dequeued') = Len(dequeued) + 1
    /\ (pc = "while" /\ pc' \in {"for", "runExperiment"})
           => /\ worklist = <<>>
              /\ pc' = "runExperiment" <=> generatedPassingTests
    /\ (generatedPassingTests /\ passes' # passes)
           => passes'[Len(passes')].call # passes[Len(passes)].call

\* C13, amended: the while loop of a temperature pass ends only when the
\* worklist is empty, and a passing test ends the generation for the
\* function after that pass; it does not stop the pass.
GenerationEndsAfterPass == [][PassEndsWithWorklist]_vars

\* A prompt refined from a completion whose test passed was queried, in the
\* pass in which the validator passed the test.
GenerationEndsAfterPassWitness ==
    \E h \in Refined \cap Queried :
        /\ tests[OwnRecord(h).testId + 1].outcome.status = "PASSED"
        /\ \E c \in DOMAIN validatorCalls :
               /\ validatorCalls[c].outcome.status = "PASSED"
               /\ ~validatorCalls[c].threw
               /\ validatorCalls[c].pass = queries[QueryOf(h)].pass

(***************************************************************************)
(* C14                                                                     *)
(***************************************************************************)

\* The k-th test info of the collector (the k-th distinct source recorded)
\* has id k-1 and the name "test_<id>.js"; no two test infos share an id.
TestIdsByPosition ==
    /\ \A k \in DOMAIN tests :
        /\ tests[k].id = k - 1
        /\ tests[k].testName =
               <<"t", "e", "s", "t", "_">> \o NumberToString(tests[k].id)
                   \o <<".", "j", "s">>
    /\ \A i, j \in DOMAIN tests : i # j => tests[i].id # tests[j].id

\* A step changes neither the id nor the name of a test info, and gives a
\* new test info an id that no test info had.
TestIdsStable ==
    /\ Len(tests') >= Len(tests)
    /\ \A i \in DOMAIN tests :
        /\ tests'[i].id = tests[i].id
        /\ tests'[i].testName = tests[i].testName
    /\ \A j \in DOMAIN tests' :
        j > Len(tests) => \A i \in DOMAIN tests : tests'[j].id # tests[i].id

\* C14: each test id is assigned exactly once: the k-th distinct test
\* source recorded gets id k-1, no two test infos share an id, an id is
\* never changed or reused, and the name is always "test_<id>.js".
TestIdsAssignedOnce == []TestIdsByPosition /\ [][TestIdsStable]_vars

\* Three test infos, the first of them found again for a second prompt and
\* still with id 0.
TestIdsAssignedOnceWitness ==
    /\ Len(tests) >= 3
    /\ Len(tests[1].prompts) >= 2
    /\ tests[1].id = 0
    /\ tests[3].testName = <<"t", "e", "s", "t", "_", "2", ".", "j", "s">>

(***************************************************************************)
(* C15                                                                     *)
(***************************************************************************)

\* C15: after any sequence of recordPromptInfo calls on a collector each
\* prompt is registered exactly once, no two prompt infos share an id, and
\* the file of every prompt info is "prompt_<id>.js".
PromptIdsAssignedOnce ==
    /\ \A i, j \in DOMAIN promptInfos :
        i # j => /\ promptInfos[i].prompt # promptInfos[j].prompt
                 /\ promptInfos[i].id # promptInfos[j].id
    /\ \A i \in DOMAIN promptInfos :
        promptInfos[i].file =
            <<"p", "r", "o", "m", "p", "t", "_">>
                \o NumberToString(promptInfos[i].id) \o <<".", "j", "s">>

(***************************************************************************)
(* C16                                                                     *)
(***************************************************************************)

\* The refiner `name` was called and has returned.
Returned(name) == output # <<>> /\ input.refiner = name

\* C16: RetryWithError.refine returns exactly one retry prompt, with the
\* given completion and the failure message of the outcome, if and only if
\* the refined prompt is not a retry prompt and the outcome is Failed (the
\* failures "Empty test" and "Invalid syntax" included); in every other
\* case it returns nothing.
RetryWithErrorEmits ==
    Returned("RetryWithError") =>
        IF ~input.original.isRetry /\ input.outcome.status = "FAILED"
        THEN /\ Len(output[1]) = 1
             /\ output[1][1].isRetry
             /\ output[1][1].body = input.completion
             /\ output[1][1].err = input.outcome.message
             /\ output[1][1].fun = input.original.fun
             /\ output[1][1].usageSnippets = input.original.usageSnippets
             /\ output[1][1].options = input.original.options
        ELSE output[1] = <<>>

\* RetryWithError returned a retry prompt for the failure "Invalid syntax"
\* of a completion that is not empty.
RetryWithErrorEmitsWitness ==
    /\ Returned("RetryWithError")
    /\ input.outcome = Failed(InvalidSyntaxMessage)
    /\ input.completion = <<")">>
    /\ Len(output[1]) = 1
    /\ output[1][1].err = InvalidSyntaxMessage

(***************************************************************************)
(* C17                                                                     *)
(***************************************************************************)

\* The snippet map returned nothing, or an empty list, for the function.
NoSnippetsFound == ~input.found.defined \/ input.found.list = <<>>

\* C17: SnippetIncluder.refine returns exactly one prompt, for the same
\* function and snippets and with includeSnippets = true and every other
\* option unchanged, if and only if includeSnippets is false and the prompt
\* has at least one snippet, whatever the completion and the outcome.  When
\* the snippet map returned nothing or an empty list, the prompt has no
\* snippets section whatever its options, SnippetIncluder returns nothing,
\* and the same is true of every prompt a refiner returns for it.
SnippetIncluderEmits ==
    /\ Returned("SnippetIncluder") =>
        IF ~input.original.options.includeSnippets
               /\ Len(input.original.usageSnippets) >= 1
        THEN /\ Len(output[1]) = 1
             /\ output[1][1].fun = input.original.fun
             /\ output[1][1].usageSnippets = input.original.usageSnippets
             /\ output[1][1].options.includeSnippets
             /\ output[1][1].options.includeDocComment
                    = input.original.options.includeDocComment
             /\ output[1][1].options.includeFunctionBody
                    = input.original.options.includeFunctionBody
        ELSE output[1] = <<>>
    /\ (output # <<>> /\ NoSnippetsFound) =>
        /\ assembleUsageSnippets(input.original) = <<>>
        /\ input.refiner = "SnippetIncluder" => output[1] = <<>>
        /\ \A n \in DOMAIN output[1] :
               /\ assembleUsageSnippets(output[1][n]) = <<>>
               /\ SnippetIncluderRefine(output[1][n], input.completion,
                                        input.outcome) = <<>>

\* SnippetIncluder returned a prompt with a snippets section for a retry
\* prompt of a passing test, whose other two options were set.
SnippetIncluderEmitsWitness ==
    /\ Returned("SnippetIncluder")
    /\ input.outcome = Passed
    /\ input.original.isRetry
    /\ input.original.options.includeDocComment
    /\ input.original.options.includeFunctionBody
    /\ Len(output[1]) = 1
    /\ assembleUsageSnippets(output[1][1]) # <<>>

(***************************************************************************)
(* C18                                                                     *)
(***************************************************************************)

\* C18: DocCommentIncluder.refine returns exactly one prompt, for the same
\* function and snippets and with includeDocComment = true and every other
\* option unchanged, if and only if includeDocComment is false and the
\* function has a doc comment; otherwise it returns nothing.  A prompt it
\* returns assembles to a text different from the text of the prompt it
\* was refined from.
DocCommentIncluderEmitsNewText ==
    Returned("DocCommentIncluder") =>
        IF ~input.original.options.includeDocComment
               /\ input.original.fun.docComment.defined
        THEN /\ Len(output[1]) = 1
             /\ output[1][1].fun = input.original.fun
             /\ output[1][1].usageSnippets = input.original.usageSnippets
             /\ output[1][1].options.includeDocComment
             /\ output[1][1].options.includeSnippets
                    = input.original.options.includeSnippets
             /\ output[1][1].options.includeFunctionBody
                    = input.original.options.includeFunctionBody
             /\ assemble(output[1][1]) # assemble(input.original)
        ELSE output[1] = <<>>

(***************************************************************************)
(* C19                                                                     *)
(***************************************************************************)

\* C19: FunctionBodyIncluder.refine returns exactly one prompt, for the
\* same function and snippets and with includeFunctionBody = true and every
\* other option unchanged, if and only if includeFunctionBody is false and
\* the function has a non-empty body; otherwise it returns nothing.
FunctionBodyIncluderEmits ==
    Returned("FunctionBodyIncluder") =>
        IF ~input.original.options.includeFunctionBody
               /\ Len(input.original.fun.implementation) > 0
        THEN /\ Len(output[1]) = 1
             /\ output[1][1].fun = input.original.fun
             /\ output[1][1].usageSnippets = input.original.usageSnippets
             /\ output[1][1].options.includeFunctionBody
             /\ output[1][1].options.includeSnippets
                    = input.original.options.includeSnippets
             /\ output[1][1].options.includeDocComment
                    = input.original.options.includeDocComment
        ELSE output[1] = <<>>

\* FunctionBodyIncluder returned a prompt whose text has the body of the
\* function, for a prompt with the other two options set.
FunctionBodyIncluderEmitsWitness ==
    /\ Returned("FunctionBodyIncluder")
    /\ input.original.options.includeSnippets
    /\ input.original.options.includeDocComment
    /\ Len(output[1]) = 1
    /\ PromptFunctionBody(output[1][1]) # <<>>
    /\ PromptFunctionBody(input.original) = <<>>

(***************************************************************************)
(* C20                                                                     *)
(***************************************************************************)

\* The initial prompt of the temperature pass begun last.
InitialPromptOfPass ==
    CHOOSE h \in DOMAIN heap :
        /\ heap[h].origin = <<0, 0>>
        /\ \A g \in DOMAIN heap : heap[g].origin = <<0, 0>> => g <= h

\* C20: every prompt made by a refiner (SnippetIncluder among them) has the
\* function and the snippet list of the prompt it was refined from, and all
\* prompts on a worklist have the function and the snippet list of the
\* initial prompt of the worklist.
SnippetsAndFunctionKept ==
    /\ \A h \in Refined :
        /\ heap[h].fun = heap[OwnRecord(h).originalPrompt].fun
        /\ heap[h].usageSnippets
               = heap[OwnRecord(h).originalPrompt].usageSnippets
    /\ \A i \in DOMAIN worklist :
        /\ heap[worklist[i]].fun = heap[InitialPromptOfPass].fun
        /\ heap[worklist[i]].usageSnippets
               = heap[InitialPromptOfPass].usageSnippets

\* A worklist of three prompts or more with a retry prompt, for the
\* function with a snippet, after SnippetIncluder made a prompt from a
\* retry prompt.
SnippetsAndFunctionKeptWitness ==
    /\ Len(worklist) >= 3
    /\ \E i \in DOMAIN worklist :
        /\ heap[worklist[i]].isRetry
        /\ heap[worklist[i]].usageSnippets # <<>>
    /\ \E h \in Refined :
        /\ OwnRecord(h).refiner = "SnippetIncluder"
        /\ heap[OwnRecord(h).originalPrompt].isRetry

(***************************************************************************)
(* C21                                                                     *)
(***************************************************************************)

\* The syntax helper `name` was called and has returned.
HelperReturned(name) == output # <<>> /\ input.function = name

\* begun before it and not ended by a newline, or at the "//" of one.
InLineComment(code, i) ==
    LET Inside[k \in 1..i] ==
            \/ k > 1 /\ Inside[k - 1] /\ code[k - 1] # "\n"
            \/ code[k] = "/" /\ k + 1 <= Len(code) /\ code[k + 1] = "/"
    IN  Inside[i]

\* The brackets of the code outside line comments, in order.
BracketsOutsideComments(code) ==
    LET Kept[i \in 0..Len(code)] ==
            IF i = 0 THEN <<>>
            ELSE IF code[i] \in {"(", ")", "{", "}", "[", "]"}
                      /\ ~InLineComment(code, i)
            THEN Append(Kept[i - 1], code[i])
            ELSE Kept[i - 1]
    IN  Kept[Len(code)]

\* The closing bracket that pairs with an opening bracket.
PairOf(open) == IF open = "(" THEN ")" ELSE IF open = "{" THEN "}" ELSE "]"

\* A list of brackets read from the left with a stack: ok is FALSE once a
\* closing bracket did not pair with the innermost open bracket; open are
\* the brackets still open, innermost last.
BracketStack(brackets) ==
    LET Stack[i \in 0..Len(brackets)] ==
            IF i = 0 THEN [ok |-> TRUE, open |-> <<>>]
            ELSE LET before == Stack[i - 1]
                     b == brackets[i]
                 IN  IF ~before.ok THEN before
                     ELSE IF b \in {"(", "{", "["}
                     THEN [before EXCEPT !.open = Append(@, b)]
                     ELSE IF before.open # <<>>
                               /\ PairOf(before.open[Len(before.open)]) = b
                     THEN [before EXCEPT
                               !.open = SubSeq(@, 1, Len(@) - 1)]
                     ELSE [before EXCEPT !.ok = FALSE]
    IN  Stack[Len(brackets)]

\* The closers of a stack of open brackets, innermost first.
ClosersOf(open) ==
    [i \in 1..Len(open) |-> PairOf(open[Len(open) + 1 - i])]

\* C22: closeBrackets, reading the code outside line comments, returns
\* nothing when a closing bracket does not match the innermost bracket
\* still open; a result it returns has as source the code followed by
\* exactly the closers of the brackets still open, innermost first, and
\* that source is the code exactly when no bracket is still open.  (It
\* returns a result exactly when every closer matched and the parser
\* accepts the source.)
CloseBracketsAppendsClosers ==
    HelperReturned("closeBrackets") =>
        LET stack == BracketStack(BracketsOutsideComments(input.code))
        IN  /\ ~stack.ok => ~output[1].defined
            /\ output[1].defined <=> (stack.ok /\ input.parses)
            /\ output[1].defined =>
                /\ output[1].source = input.code \o ClosersOf(stack.open)
                /\ output[1].source = input.code <=> stack.open = <<>>

\* closeBrackets closed the block of "{[]" and returned "{[]}".
CloseBracketsAppendsClosersWitness ==
    /\ HelperReturned("closeBrackets")
    /\ input.code = <<"{", "[", "]">>
    /\ output[1].defined
    /\ output[1].source = <<"{", "[", "]", "}">>

(***************************************************************************)
(* C23                                                                     *)
(***************************************************************************)

\* A text without its final newline, if it has one.
WithoutFinalNewline(text) ==
    IF text # <<>> /\ text[Len(text)] = "\n"
    THEN SubSeq(text, 1, Len(text) - 1)
    ELSE text

\* C23: commentOut returns the empty string for the empty input; for any
\* other input it returns the lines of the input (one trailing empty line
\* ignored), each prefixed with "// " and ended by a newline, so the output
\* ends with a newline and each of its lines begins with "// ".
CommentOutPrefixesLines ==
    HelperReturned("commentOut") =>
        IF input.code = <<>> THEN output[1] = <<>>
        ELSE /\ output[1] # <<>>
             /\ output[1][Len(output[1])] = "\n"
             /\ LET linesIn == SplitLines(WithoutFinalNewline(input.code))
                    linesOut == SplitLines(WithoutFinalNewline(output[1]))
                IN  /\ Len(linesOut) = Len(linesIn)
                    /\ \A i \in DOMAIN linesOut :
                           linesOut[i] = <<"/", "/", " ">> \o linesIn[i]

\* commentOut returned two commented lines for a line followed by an empty
\* line and the trailing empty line.
CommentOutPrefixesLinesWitness ==
    /\ HelperReturned("commentOut")
    /\ input.code = <<"a", "\n", "\n">>
    /\ output[1] = <<"/", "/", " ", "a", "\n", "/", "/", " ", "\n">>

(***************************************************************************)
(* C24                                                                     *)
(***************************************************************************)

\* C24: the test completeTest builds (with stub headers, its default) does
\* not depend on the access path of the function, the options or the
\* snippets of the prompt: two prompts for the same package complete the
\* same body to the same test source (or both to none), and the collector
\* keeps a single test info, with both prompts, for them.
CompleteTestIgnoresFunction ==
    (output # <<>>
         /\ input.first.fun.packageName = input.second.fun.packageName)
        => /\ output[1] = output[2]
           /\ Len(tests) = 1
           /\ tests[1].prompts = <<1, 2>>

\* A retry prompt for f with snippets and every option set and the initial
\* prompt for g completed a body to the same test, kept once.
CompleteTestIgnoresFunctionWitness ==
    /\ output # <<>>
    /\ input.first.fun = FunF
    /\ input.first.isRetry
    /\ input.first.usageSnippets # <<>>
    /\ input.first.options.includeSnippets
    /\ input.first.options.includeDocComment
    /\ input.second = NewPrompt(FunG, <<>>, defaultPromptOptions)
    /\ input.body = <<"a", ";">>
    /\ output[1].defined
    /\ output[1] = output[2]
    /\ Len(tests) = 1

(***************************************************************************)
(* C25                                                                     *)
(***************************************************************************)

\* The text of a section of a prompt when its condition holds.
UsageSnippetsSection(p) ==
    assembleUsageSnippets([p EXCEPT !.options.includeSnippets = TRUE])

DocCommentSection(p) ==
    PromptDocComment([p EXCEPT !.options.includeDocComment = TRUE])

FunctionBodySection(p) ==
    PromptFunctionBody([p EXCEPT !.options.includeFunctionBody = TRUE])

\* The seven sections of the claim, each empty when its condition is false.
SectionsInOrder(p) ==
    PromptImports(p)
        \o (IF p.options.includeSnippets
            THEN UsageSnippetsSection(p) ELSE <<>>)
        \o (IF p.options.includeDocComment /\ p.fun.docComment.defined
                   /\ p.fun.docComment.text # <<>>
            THEN DocCommentSection(p) ELSE <<>>)
        \o commentOut(FunctionSignature(p.fun))
        \o (IF p.options.includeFunctionBody /\ p.fun.implementation # <<>>
            THEN FunctionBodySection(p) ELSE <<>>)
        \o PromptSuiteHeader(p)
        \o PromptTestHeader(p)

\* C25: the assembled text of a prompt that is not a retry prompt is its
\* imports, its usage snippets (only with includeSnippets), its doc comment
\* (only with includeDocComment and a doc comment that is not empty), its
\* signature, its function body (only with includeFunctionBody and a body
\* that is not empty), its suite header and its test header, in this order;
\* a section whose condition is false adds nothing.
AssembledInSectionOrder ==
    (output # <<>> /\ ~input.prompt.isRetry)
        => output[1] = SectionsInOrder(input.prompt)

\* A prompt with snippets, a doc comment and a body, all three included,
\* was assembled, and each of the three sections has text.
AssembledInSectionOrderWitness ==
    /\ output # <<>>
    /\ ~input.prompt.isRetry
    /\ input.prompt.options =
           [includeSnippets |-> TRUE, includeDocComment |-> TRUE,
            includeFunctionBody |-> TRUE]
    /\ UsageSnippetsSection(input.prompt) # <<>>
    /\ DocCommentSection(input.prompt) # <<>>
    /\ FunctionBodySection(input.prompt) # <<>>
    /\ output[1] = SectionsInOrder(input.prompt)

(***************************************************************************)
(* C26                                                                     *)
(***************************************************************************)

\* The trailer of a retry prompt: the three comment lines with the message.
RetryTrailer(p) == RetryTrailerStart \o p.err \o RetryTrailerEnd

\* C26 as stated: the text of a retry prompt is the base prompt with the
\* stub headers, the failing body and a newline, the trailer and the test
\* header of the base prompt.
RetryAssembledWithStubHeaders ==
    (output # <<>> /\ input.prompt.isRetry)
        => output[1] =
               PromptImports(input.prompt)
                   \o assembleUsageSnippets(input.prompt)
                   \o PromptDocComment(input.prompt)
                   \o PromptSignature(input.prompt)
                   \o PromptFunctionBody(input.prompt)
                   \o StubHeaders
                   \o input.prompt.body \o <<"\n">>
                   \o RetryTrailer(input.prompt)
                   \o PromptTestHeader(input.prompt)

\* The closers that end the failing test of a retry prompt: the closing
\* brackets the test leaves open, with a final "})})" rewritten to
\* "    })\n", when the test can be repaired; "    })\n" otherwise.
FailingTestClosers(p) ==
    LET raw == SectionsInOrder(p) \o p.body \o <<"\n">>
        scan == ScanBrackets(raw)
    IN  IF scan.matched /\ p.parses
        THEN IF Len(scan.brackets) >= 4
                    /\ SubSeq(scan.brackets, Len(scan.brackets) - 3,
                              Len(scan.brackets)) = <<"}", ")", "}", ")">>
             THEN SubSeq(scan.brackets, 1, Len(scan.brackets) - 4)
                      \o <<" ", " ", " ", " ", "}", ")", "\n">>
             ELSE scan.brackets
        ELSE <<" ", " ", " ", " ", "}", ")", "\n">>

\* C26, amended: the text of a retry prompt is the text of the base prompt
\* with its own suite header and test header, the failing body and a
\* newline, the closers that end the failing test, the trailer with the
\* error message, and the test header of the base prompt.
RetryAssembledWithOwnHeaders ==
    (output # <<>> /\ input.prompt.isRetry)
        => output[1] =
               SectionsInOrder(input.prompt)
                   \o input.prompt.body \o <<"\n">>
                   \o FailingTestClosers(input.prompt)
                   \o RetryTrailer(input.prompt)
                   \o PromptTestHeader(input.prompt)

\* A retry prompt was assembled whose failing body leaves a bracket open:
\* the bracket is closed and the test case after it, before the trailer.
RetryAssembledWithOwnHeadersWitness ==
    /\ output # <<>>
    /\ input.prompt.isRetry
    /\ input.prompt.body = <<"f", "(">>
    /\ input.prompt.parses
    /\ input.prompt.err = TestFailedMessage
    /\ FailingTestClosers(input.prompt)
           = <<")", " ", " ", " ", " ", "}", ")", "\n">>
    /\ output[1] =
           PromptAssemble(input.prompt) \o <<"f", "(", "\n">>
               \o <<")", " ", " ", " ", " ", "}", ")", "\n">>
               \o RetryTrailer(input.prompt)
               \o PromptTestHeader(input.prompt)

(***************************************************************************)
(* C27                                                                     *)
(***************************************************************************)

\* C27: main calls validator.cleanup() on every way out of an experiment:
\* whenever main has ended, by returning (after runExperiment used up the
\* functions or stopped at the deadline, and the report was written) or
\* with the exception of the generation, of the coverage summary, of the
\* report or of cleanup() itself, cleanup() was called.
CleanupOnEveryExit == pc \in {"exit", "exit1"} => cleanedUp

\* The deadline cut the run short with functions left, then the report
\* threw, and main ended after cleanup().
CleanupOnEveryExitWitness ==
    /\ pc = "exit1"
    /\ expired
    /\ workList # <<>>
    /\ coverageRecorded
    /\ exception = "report"
    /\ cleanedUp

(***************************************************************************)
(* C28                                                                     *)
(***************************************************************************)

\* C28 as stated: on every way out of runExperiment, by return or by an
\* exception, recordCoverageInfo was called.
CoverageRecordedOnEveryExit == pc \in {"done", "threw"} => coverageRecorded

\* The collector keeps what was recorded: every test info stays, with its
\* id and source (a later prompt may be added to it), every prompt info
\* stays as it is, and a recorded coverage summary stays.
RecordedIsRetained ==
    /\ Len(tests') >= Len(tests)
    /\ \A i \in DOMAIN tests :
           /\ tests'[i].id = tests[i].id
           /\ tests'[i].testSource = tests[i].testSource
           /\ SubSeq(tests'[i].prompts, 1, Len(tests[i].prompts))
                  = tests[i].prompts
    /\ Len(promptInfos') >= Len(promptInfos)
    /\ SubSeq(promptInfos', 1, Len(promptInfos)) = promptInfos
    /\ coverageRecorded => coverageRecorded'

\* The functions are taken one at a time and in the order given: the
\* workList is what is left of the list after the function at work; the
\* passes are those of one function after the other.
FunctionsInOrderGiven ==
    LET k == Len(functions) - Len(workList)
    IN  /\ workList = SubSeq(functions, k + 1, Len(functions))
        /\ pc \in {"for", "while", "await"} => k >= 1 /\ fun = functions[k]
        /\ \A i, j \in DOMAIN passes :
               i < j => passes[i].call <= passes[j].call

\* runExperiment returns only with the list used up or on the deadline, and
\* then with the coverage summary recorded; after an exception it is not.
CoverageRecordedOnReturn ==
    /\ pc = "done" => coverageRecorded /\ (workList = <<>> \/ expired)
    /\ pc = "threw" => ~coverageRecorded

\* C28, amended: when runExperiment returns, with the function list used up
\* or on the deadline, every test and prompt recorded is retained and
\* recordCoverageInfo was called; when an exception of the provider or the
\* validator (of validateTest, or of computeCoverageSummary itself) leaves
\* it, the tests and prompts recorded are retained but recordCoverageInfo
\* was not called; functions are processed one at a time in the order given.
CollectorPopulatedOnReturn ==
    /\ [](CoverageRecordedOnReturn /\ FunctionsInOrderGiven)
    /\ [][RecordedIsRetained]_vars

\* runExperiment stopped on the deadline after the first of two functions:
\* the tests and prompts of that function are in the collector, with the
\* coverage summary.
CollectorPopulatedOnReturnWitness ==
    /\ pc = "done"
    /\ expired
    /\ Len(functions) = 2
    /\ Len(workList) = 1
    /\ tests # <<>>
    /\ promptInfos # <<>>
    /\ coverageRecorded

(***************************************************************************)
(* C29                                                                     *)
(***************************************************************************)

\* The generation loop is about to dequeue a prompt, or has returned.
AtDequeueOrReturned ==
    \/ pc = "while" /\ worklist # <<>>
    \/ pc \in {"runExperiment", "done"}

\* C29: whenever the generation loop is about to dequeue a prompt, and when
\* it has returned, there are as many prompt infos as completion queries
\* that returned: the prompt of the k-th query has the k-th prompt info and
\* no other, with the temperature of the query and the completions the
\* query returned, empty or not.
PromptInfoPerReturnedQuery ==
    AtDequeueOrReturned
        => /\ Len(promptInfos) = Len(answers)
           /\ Len(answers) = Len(queries)
           /\ \A k \in DOMAIN answers :
                  /\ promptInfos[k].prompt = queries[k].prompt
                  /\ promptInfos[k].temperature = queries[k].temperature
                  /\ promptInfos[k].completions = answers[k]
                  /\ \A j \in DOMAIN promptInfos :
                         promptInfos[j].prompt = queries[k].prompt => j = k

\* The loop is about to dequeue a prompt after two queries, the first
\* answered with a completion and the second with the empty set.
PromptInfoPerReturnedQueryWitness ==
    /\ pc = "while"
    /\ worklist # <<>>
    /\ Len(answers) = 2
    /\ answers[1] # <<>>
    /\ answers[2] = <<>>
    /\ Len(promptInfos) = 2
    /\ promptInfos[2].completions = <<>>

(***************************************************************************)
(* C30                                                                     *)
(***************************************************************************)

\* The queries of the pass under way that were made with a text.
QueriesOfPassWith(text) ==
    {q \in DOMAIN queries :
        queries[q].pass = Len(passes) /\ queries[q].text = text}

\* No text is queried twice in one temperature pass of one call.
QueriedOncePerTextAndPass ==
    \A i, j \in DOMAIN queries :
        (i < j /\ queries[i].pass = queries[j].pass)
            => queries[i].text # queries[j].text

\* A step that dequeues a prompt whose text was queried in this pass makes
\* no query, records no prompt info and no test, and does not call the
\* validator: it only adds the provenance records of the prompt to those
\* of the prompt that was queried with the text.  A prompt with a new text
\* is queried, with its text and the temperature of the pass.
DuplicateSkippedWithoutQuery ==
    Len(dequeued') = Len(dequeued) + 1
        => LET h == dequeued'[Len(dequeued')]
               text == assemble(heap[h])
               before == QueriesOfPassWith(text)
           IN  IF before # {}
               THEN /\ queries' = queries
                    /\ answers' = answers
                    /\ promptInfos' = promptInfos
                    /\ tests' = tests
                    /\ validatorCalls' = validatorCalls
                    /\ pc' = "while"
                    /\ \A q \in before :
                           heap' = [heap EXCEPT ![queries[q].prompt].provenance
                                                    = @ \o heap[h].provenance]
               ELSE /\ queries' =
                           Append(queries,
                                  [prompt |-> h, text |-> text,
                                   temperature |-> temperatures[tIdx],
                                   pass |-> Len(passes)])
                    /\ pc' = "await"

\* C30: within one call of generateAndValidateTests and one temperature the
\* provider is queried at most once for an assembled text: a dequeued prompt
\* whose text was queried at this temperature is skipped without a query, a
\* prompt info or a validation, and only its provenance records are kept.
QueriedOncePerText ==
    []QueriedOncePerTextAndPass /\ [][DuplicateSkippedWithoutQuery]_vars

\* A prompt was dequeued and skipped: it has no query and no prompt info,
\* and the prompt queried with its text in the same pass has its provenance
\* record after its own.
QueriedOncePerTextWitness ==
    \E h \in Range(dequeued) :
        /\ h \notin Queried
        /\ h \notin WithPromptInfo
        /\ \E q \in DOMAIN queries :
               /\ queries[q].text = assemble(heap[h])
               /\ queries[q].pass = PassOf(h)
               /\ Len(heap[queries[q].prompt].provenance) = 2
               /\ heap[queries[q].prompt].provenance[2] = heap[h].provenance[1]

(***************************************************************************)
(* C31                                                                     *)
(***************************************************************************)

\* The text of the initial prompt of a pass: the prompt for the function of
\* the call with its snippets and the default options.
InitialTextOf(f) ==
    PromptAssemble(NewPrompt(f, snippetsOrEmpty(snippetMap(functionName(f))),
                             defaultPromptOptions))

InitialTextOfPass(k) == InitialTextOf(functions[passes[k].call])

\* The queries of a pass made with the text of its initial prompt.
InitialQueriesOfPass(k) ==
    {q \in DOMAIN queries :
        queries[q].pass = k /\ queries[q].text = InitialTextOfPass(k)}

\* In every pass the text of the initial prompt is queried at most once, at
\* the temperature of the pass, and once in every pass that was followed by
\* another.
InitialTextQueriedPerPass ==
    \A k \in DOMAIN passes :
        /\ Cardinality(InitialQueriesOfPass(k)) <= 1
        /\ k < Len(passes) => Cardinality(InitialQueriesOfPass(k)) = 1
        /\ \A q \in InitialQueriesOfPass(k) :
               queries[q].temperature = passes[k].temperature

\* A pass starts with an empty map of generated prompts and a worklist of
\* one new prompt object, the initial prompt; a pass that ends without a
\* passing test goes on to the next temperature (a step at that point that
\* leaves the control point alone is the clock passing the deadline).
PassStartsFresh ==
    /\ Len(passes') = Len(passes) + 1
           => /\ generatedPrompts' = <<>>
              /\ worklist' = <<Len(heap) + 1>>
              /\ Len(heap') = Len(heap) + 1
              /\ assemble(heap'[Len(heap) + 1]) = InitialTextOf(fun)
              /\ heap'[Len(heap) + 1].provenance = <<>>
    /\ (pc = "while" /\ worklist = <<>> /\ ~generatedPassingTests
            /\ pc' # pc)
           => pc' = "for" /\ tIdx' = tIdx + 1

\* C31: the set of seen prompt texts is reset per temperature: when a
\* temperature gave no passing test and another follows, generation starts
\* again from a fresh initial prompt with an empty seen-set, and the text of
\* the initial prompt is queried again, once per temperature.
SeenResetPerTemperature ==
    []InitialTextQueriedPerPass /\ [][PassStartsFresh]_vars

\* The same function was queried with the text of its initial prompt at two
\* temperatures, one pass after the other.
SeenResetPerTemperatureWitness ==
    \E q1, q2 \in DOMAIN queries :
        /\ queries[q1].pass + 1 = queries[q2].pass
        /\ passes[queries[q1].pass].call = passes[queries[q2].pass].call
        /\ queries[q1].temperature # queries[q2].temperature
        /\ queries[q1].text = queries[q2].text
        /\ queries[q1].text = InitialTextOfPass(queries[q1].pass)

(***************************************************************************)
(* C32                                                                     *)
(***************************************************************************)

\* The query in which test info t was created: the query of the first
\* prompt of the test info.
TestCreatedInQuery(t) == QueryOf(tests[t].prompts[1])

\* The source validateCompletion records a completion of the universe
\* under, for a prompt of function f: the completed test, or the completion
\* itself if there is none.
SourceRecordedFor(f, completion) ==
    IF CompleteTestOf(f, completion).defined
    THEN CompleteTestOf(f, completion).source
    ELSE completion

\* The position, in the answer to that query, of the completion test info t
\* was created for: the first one that is recorded under its source.
TestCreatedAtCompletion(t) ==
    LET q == TestCreatedInQuery(t)
        f == heap[queries[q].prompt].fun
    IN  CHOOSE i \in DOMAIN answers[q] :
            /\ SourceRecordedFor(f, answers[q][i]) = tests[t].testSource
            /\ \A j \in 1..(i - 1) :
                   SourceRecordedFor(f, answers[q][j]) # tests[t].testSource

\* Test info t existed when prompt h was pushed on the worklist.  A refined
\* prompt is pushed by refinePrompts for the completion of its origin, after
\* validateCompletion has recorded that completion; an initial prompt is
\* pushed at the start of its pass, before its own query.
ExistedAtPush(t, h) ==
    IF h \in Refined
    THEN \/ TestCreatedInQuery(t) < heap[h].origin[1]
         \/ /\ TestCreatedInQuery(t) = heap[h].origin[1]
            /\ TestCreatedAtCompletion(t) <= heap[h].origin[2]
    ELSE h \notin Queried \/ TestCreatedInQuery(t) < QueryOf(h)

\* The provenance records held by the prompts.
ProvenanceRecords ==
    UNION {Range(heap[h].provenance) : h \in DOMAIN heap}

\* The names of the four refiners of the generator.
RefinerNames ==
    {"SnippetIncluder", "RetryWithError", "DocCommentIncluder",
     "FunctionBodyIncluder"}

\* C32 as claimed: every provenance record held by a prompt names a test
\* info that existed when the prompt holding it was pushed on the worklist,
\* a prompt that is among the prompts of that test info, and one of the
\* four refiners.
ProvenanceTestExistedAtPush ==
    \A h \in DOMAIN heap :
        \A k \in DOMAIN heap[h].provenance :
            \E t \in DOMAIN tests :
                /\ tests[t].id = heap[h].provenance[k].testId
                /\ ExistedAtPush(t, h)
                /\ heap[h].provenance[k].originalPrompt
                       \in Range(tests[t].prompts)
                /\ heap[h].provenance[k].refiner \in RefinerNames

\* C32, amended: every provenance record held by a prompt names a test info
\* of the collector, a prompt that is among the prompts of that test info,
\* and one of the four refiners; it was made for a refined prompt g, the
\* prompt holding it or a prompt of the same text that was dequeued and
\* skipped for it, and the test info existed when g was pushed on the
\* worklist.  The first record of a refined prompt is the one made for it.
ProvenanceRecordsValid ==
    /\ \A h \in DOMAIN heap :
        \A k \in DOMAIN heap[h].provenance :
            \E t \in DOMAIN tests :
                /\ tests[t].id = heap[h].provenance[k].testId
                /\ heap[h].provenance[k].originalPrompt
                       \in Range(tests[t].prompts)
                /\ heap[h].provenance[k].refiner \in RefinerNames
                /\ \E g \in Refined :
                       /\ OwnRecord(g) = heap[h].provenance[k]
                       /\ ExistedAtPush(t, g)
                       /\ \/ g = h
                          \/ /\ g \in Range(dequeued) \ Queried
                             /\ assemble(heap[g]) = assemble(heap[h])
    /\ \A h \in Refined :
        \E t \in DOMAIN tests :
            /\ tests[t].id = OwnRecord(h).testId
            /\ ExistedAtPush(t, h)

\* Records of all four refiners are held, and a prompt holds the record of
\* a prompt skipped for it that names a test info created after the prompt
\* holding the record was pushed.
ProvenanceRecordsValidWitness ==
    /\ {r.refiner : r \in ProvenanceRecords} = RefinerNames
    /\ \E h \in DOMAIN heap :
        \E k \in DOMAIN heap[h].provenance :
            \E t \in DOMAIN tests :
                /\ k >= 2
                /\ tests[t].id = heap[h].provenance[k].testId
                /\ ~ExistedAtPush(t, h)

(***************************************************************************)
(* C33                                                                     *)
(***************************************************************************)

\* C33 as stated, the part on the outcome: the outcome of every test info
\* was written, so that none has the initial Other (a test info is created
\* and its outcome computed in one step of the loop, and no outcome computed
\* in the model is Other).
OutcomeWrittenForEveryTest ==
    \A i \in DOMAIN tests : tests[i].outcome # Other

\* A step leaves the id, the name, the source, the api and the outcome of
\* every test info that exists as they are and only appends to its prompts;
\* a test info it creates has its outcome written, unless the validator
\* threw for it, which ends the run.
TestInfoFrame ==
    /\ Len(tests') >= Len(tests)
    /\ \A i \in DOMAIN tests :
           /\ tests'[i].id = tests[i].id
           /\ tests'[i].testName = tests[i].testName
           /\ tests'[i].testSource = tests[i].testSource
           /\ tests'[i].api = tests[i].api
           /\ tests'[i].outcome = tests[i].outcome
           /\ Len(tests'[i].prompts) >= Len(tests[i].prompts)
           /\ SubSeq(tests'[i].prompts, 1, Len(tests[i].prompts))
                  = tests[i].prompts
    /\ \A i \in (DOMAIN tests') \ (DOMAIN tests) :
           tests'[i].outcome = Other
               => i = Len(tests') /\ exception' = "validator" /\ pc' = "threw"

\* A test info has the api of the first prompt it was recorded for, and the
\* initial outcome only if the validator threw for it.
TestInfoApiOfFirstPrompt ==
    \A i \in DOMAIN tests :
        /\ tests[i].api = heap[tests[i].prompts[1]].fun.accessPath
        /\ tests[i].outcome = Other
               => i = Len(tests) /\ exception = "validator"

\* C33, amended: once a test info is created its id, name, source and api
\* never change (it keeps the api of the function that produced it first),
\* its prompts only grow by appending, and its outcome is written at most
\* once, in the step that creates it, and never changes afterwards; it is
\* written exactly once unless the validator throws for the test, which
\* leaves the initial Other.
TestInfoWrittenOnce == []TestInfoApiOfFirstPrompt /\ [][TestInfoFrame]_vars

\* A test info produced first for one function was found again for a prompt
\* of the other function: it has the api of the first and its outcome.
TestInfoWrittenOnceWitness ==
    \E i \in DOMAIN tests :
        /\ Len(tests[i].prompts) >= 2
        /\ tests[i].outcome # Other
        /\ \E k \in DOMAIN tests[i].prompts :
               heap[tests[i].prompts[k]].fun.accessPath # tests[i].api

(***************************************************************************)
(* C34                                                                     *)
(***************************************************************************)

\* The rank of a prompt: two for every option that is off, one more for a
\* prompt that is not a retry prompt.  An includer turns an option on and
\* returns a plain prompt, RetryWithError turns a plain prompt into a retry
\* prompt with the same options: both lower the rank.
Rank(p) ==
    2 * Cardinality({o \in {"includeSnippets", "includeDocComment",
                            "includeFunctionBody"} : ~p.options[o]})
        + (IF p.isRetry THEN 0 ELSE 1)

\* The steps of the loop a prompt of rank r can stand for, at most: its
\* dequeue and its query, and those of the refinements (at most four, of
\* lower rank) of each completion of the answer.
RECURSIVE Work(_)
Work(r) ==
    IF r = 0 THEN 2 ELSE 2 + 4 * MaxCompletions * Work(r - 1)

\* The work of the prompts on the worklist.
RECURSIVE WorklistWork(_)
WorklistWork(wl) ==
    IF wl = <<>> THEN 0
    ELSE Work(Rank(heap[Head(wl)])) + WorklistWork(Tail(wl))

\* The variant of generateAndValidateTests: the temperatures that are left
\* after this one, each with the work of an initial prompt, the work on the
\* worklist and that of the prompt whose completions are awaited; 0 outside
\* the call.
Variant ==
    LET perPass == Work(7) + 2
    IN  CASE pc = "for" ->
                 (Len(temperatures) - tIdx + 1) * perPass + 1
          [] pc = "while" ->
                 (Len(temperatures) - tIdx) * perPass + WorklistWork(worklist) + 2
          [] pc = "await" ->
                 (Len(temperatures) - tIdx) * perPass + WorklistWork(worklist)
                     + Work(Rank(heap[prompt])) - 1 + 2
          [] OTHER -> 0

\* Every step inside generateAndValidateTests lowers the variant.
VariantDecreases == pc \in {"for", "while", "await"} => Variant' < Variant

\* C34: with a provider that answers every query with a finite set and a
\* validator that returns, generateAndValidateTests terminates, and at
\* every temperature the worklist becomes empty: every step of the call
\* lowers a variant that is never negative, because every refinement has a
\* lower rank than the prompt it refines (options are only turned on, a
\* retry prompt is never refined into a retry prompt).
GenerationTerminates ==
    /\ [](Variant >= 0 /\ answersLeft > 0)
    /\ [][VariantDecreases]_vars

\* A call has returned after more than twenty queries, one of them for a
\* retry prompt with every option on, the end of the longest chain of
\* refinements, though the provider answered every query with completions.
GenerationTerminatesWitness ==
    /\ pc = "done"
    /\ input.completions # <<>>
    /\ Len(queries) > 20
    /\ \E q \in DOMAIN queries : Rank(heap[queries[q].prompt]) = 0
    /\ \A q \in DOMAIN answers : answers[q] # <<>>


(***************************************************************************)
(* C35                                                                     *)
(***************************************************************************)

\* Two steps are steps of the same block: of the same generation, for the
\* same returned completion set.
SameBlock(a, b) == a.generation = b.generation /\ a.block = b.block

\* The validations, the refinements and the recordPromptInfo call of one
\* completion set are consecutive among the steps of all generations.
BlocksUninterrupted ==
    \A i, k \in DOMAIN steps :
        (i < k /\ SameBlock(steps[i], steps[k]))
            => \A j \in i..k : SameBlock(steps[i], steps[j])

\* No generation is suspended anywhere but before its first statement, at
\* the await of the completion query, or after its return.
SuspendedAtAwaitOnly ==
    running = 0 =>
        \A g \in Generations :
            generations[g].pc \in {"call", "await", "returned"}

\* The ids of the test infos and of the prompt infos are pairwise distinct.
CollectorIdsUnique ==
    /\ \A i, j \in DOMAIN tests : tests[i].id = tests[j].id => i = j
    /\ \A i, j \in DOMAIN promptInfos :
           promptInfos[i].id = promptInfos[j].id => i = j

\* C35: a generation is suspended only at the await of the completion
\* query: under every interleaving of generations sharing one collector, the
\* validations, the refinements and the recordPromptInfo call of one returned
\* completion set run as one uninterrupted block, and the test ids and the
\* prompt ids stay unique.
BlocksAtomicBetweenAwaits ==
    /\ SuspendedAtAwaitOnly
    /\ BlocksUninterrupted
    /\ CollectorIdsUnique

\* Generation 1 validated and refined, then generation 2 validated, refined
\* and recorded, then generation 1 went on with a later completion set.
BlocksAtomicBetweenAwaitsWitness ==
    /\ \E i, j, k \in DOMAIN steps :
           /\ i < j /\ j < k
           /\ steps[i].generation = 1 /\ steps[i].kind = "refine"
           /\ steps[j].generation = 2 /\ steps[j].kind = "refine"
           /\ steps[k].generation = 1 /\ steps[k].block > steps[i].block
    /\ Len(tests) >= 2
    /\ Len(promptInfos) >= 3

(***************************************************************************)
(* C36                                                                     *)
(***************************************************************************)

\* The queries at which the provider failed and does not answer failures
\* with an exception on purpose (Codex whose request or upstream service
\* failed, the mock model without strictResponses and a prompt it does not
\* know).
FailedQueries ==
    {q \in DOMAIN output : output[q] /\ ~input.strictResponses}

\* The failure reached the engine as an empty completion set, and left the
\* prompt with a prompt info without completions, in no test info, the
\* original of no refinement, and queried once.
FailureIsEmptyAnswer ==
    \A q \in FailedQueries :
        /\ exception # "provider"
        /\ q \in DOMAIN answers
        /\ answers[q] = <<>>
        /\ Cardinality({i \in DOMAIN promptInfos :
                           promptInfos[i].prompt = queries[q].prompt}) = 1
        /\ \A i \in DOMAIN promptInfos :
               promptInfos[i].prompt = queries[q].prompt
                   => /\ promptInfos[i].completions = <<>>
                      /\ promptInfos[i].temperature = queries[q].temperature
        /\ \A t \in DOMAIN tests :
               \A i \in DOMAIN tests[t].prompts :
                   tests[t].prompts[i] # queries[q].prompt
        /\ \A h \in DOMAIN heap :
               /\ heap[h].origin[1] # q
               /\ \A i \in DOMAIN heap[h].provenance :
                      heap[h].provenance[i].originalPrompt # queries[q].prompt
        /\ \A r \in DOMAIN queries :
               r # q => /\ queries[r].prompt # queries[q].prompt
                        /\ queries[r].pass = queries[q].pass
                               => queries[r].text # queries[q].text

\* The step in which such a failure is answered goes back to the head of
\* the while loop with the worklist as it was: nothing was validated and
\* nothing refined.
LoopProceedsAfterFailure ==
    (Len(output') = Len(output) + 1 /\ Len(output') \in FailedQueries')
        => /\ pc' = "while"
           /\ worklist' = worklist
           /\ heap' = heap
           /\ tests' = tests
           /\ validatorCalls' = validatorCalls
           /\ Len(promptInfos') = Len(promptInfos) + 1

\* C36: a failure of the completion provider for a prompt reaches the
\* engine as an empty completion set and the loop proceeds: the prompt gets
\* a prompt info with no completions, no test is validated and nothing is
\* refined for it, the remaining worklist is still processed, and the engine
\* does not query the prompt again.
ProviderFailureIsEmptySet ==
    []FailureIsEmptyAnswer /\ [][LoopProceedsAfterFailure]_vars

\* Codex failed for a refined prompt while other prompts were on the
\* worklist; they were queried afterwards and the call returned.
ProviderFailureIsEmptySetWitness ==
    /\ input.model = "Codex"
    /\ pc = "done"
    /\ \E q \in FailedQueries :
           /\ heap[queries[q].prompt].origin # <<0, 0>>
           /\ \E r \in DOMAIN queries :
                  /\ r > q
                  /\ queries[r].pass = queries[q].pass
                  /\ queries[r].prompt < queries[q].prompt

(***************************************************************************)
(* C37                                                                     *)
(***************************************************************************)

\* The number of positions of the list `prompts` that hold the prompt h.
Occurrences(prompts, h) ==
    Cardinality({i \in DOMAIN prompts : prompts[i] = h})

\* A prompt appears at most once in the prompts list of a test info.
PromptListedOnce ==
    \A t \in DOMAIN tests :
        \A h \in DOMAIN heap : Occurrences(tests[t].prompts, h) <= 1

\* The sources validateCompletion may record the completion of a prompt
\* under: the completed test, or the completion itself if there is none
\* (one source for each answer the parser may give).
RecordedSource(h, completion) ==
    {IF completeTest(heap[h], completion, v).defined
     THEN completeTest(heap[h], completion, v).source
     ELSE completion : v \in ParserVerdicts(heap[h], completion)}

\* The positions of the answer to query q whose completion is recorded
\* under the source of test info t.
CompletionsOfTest(q, t) ==
    {i \in DOMAIN answers[q] :
        tests[t].testSource
            \in RecordedSource(queries[q].prompt, answers[q][i])}

\* C37 as amended: a prompt appears in the prompts list of a test info once
\* for each completion of its completion set that was validated and
\* assembles to the source of the test info (all of them, if the validator
\* did not throw): twice for two completions that differ only in leading
\* whitespace.  The validator is still called once for the test.
PromptListedOncePerCompletion ==
    /\ \A t \in DOMAIN tests :
           \A q \in DOMAIN answers :
               IF exception = "none"
               THEN Occurrences(tests[t].prompts, queries[q].prompt)
                        = Cardinality(CompletionsOfTest(q, t))
               ELSE Occurrences(tests[t].prompts, queries[q].prompt)
                        <= Cardinality(CompletionsOfTest(q, t))
    /\ \A t \in DOMAIN tests :
           \A h \in DOMAIN heap :
               Occurrences(tests[t].prompts, h) > 0 => h \in Queried
    /\ \A t \in DOMAIN tests :
           Cardinality({c \in DOMAIN validatorCalls :
                           validatorCalls[c].testSource = tests[t].testSource})
               <= 1

\* One answer held the statement and the indented statement: the test info
\* of their common source lists the prompt twice, and was validated once.
PromptListedOncePerCompletionWitness ==
    /\ exception = "none"
    /\ \E q \in DOMAIN answers :
           /\ Len(answers[q]) = 2
           /\ \E t \in DOMAIN tests :
                  /\ CompletionsOfTest(q, t) = {1, 2}
                  /\ Occurrences(tests[t].prompts, queries[q].prompt) = 2
                  /\ Cardinality({c \in DOMAIN validatorCalls :
                                     validatorCalls[c].testSource
                                         = tests[t].testSource}) = 1

(***************************************************************************)
(* C38                                                                     *)
(***************************************************************************)

\* The prompts the report translates to prompt ids: those listed by the
\* test infos (getReportForTest) and the original prompts of the provenance
\* records of the prompts with a prompt info (report, prompts.json).
TranslatedPrompts ==
    UNION {{tests[t].prompts[i] : i \in DOMAIN tests[t].prompts} :
              t \in DOMAIN tests}
        \cup UNION {{heap[promptInfos[k].prompt].provenance[i].originalPrompt :
                        i \in DOMAIN heap[promptInfos[k].prompt].provenance} :
                    k \in DOMAIN promptInfos}

\* C38: whenever generateAndValidateTests has returned normally, every
\* prompt in the prompts list of a test info and every originalPrompt of a
\* provenance record of a recorded prompt has a prompt info in the
\* collector: the report's translation of prompts to prompt ids meets no
\* missing entry.
TranslatedPromptsRecorded ==
    (pc \in {"runExperiment", "done"} /\ exception = "none")
        => TranslatedPrompts \subseteq WithPromptInfo

\* The call returned with a test info that lists two prompts and a recorded
\* prompt with the provenance records of two refinements.
TranslatedPromptsRecordedWitness ==
    /\ pc = "done"
    /\ exception = "none"
    /\ \E t \in DOMAIN tests : Len(tests[t].prompts) >= 2
    /\ \E k \in DOMAIN promptInfos :
           Len(heap[promptInfos[k].prompt].provenance) >= 2
    /\ Len(promptInfos) >= 3

(***************************************************************************)
(* C39                                                                     *)
(***************************************************************************)

\* The number of characters of `chars` among the first n of the text.
CountOf(text, n, chars) == Cardinality({i \in 1..n : text[i] \in chars})

\* No prefix of the text closes more brackets than it opens, "}" and ")"
\* counted against "{" and "(".
StaysInScope(text) ==
    \A n \in 0..Len(text) :
        CountOf(text, n, {"}", ")"}) <= CountOf(text, n, {"{", "("})

\* C39: for every string s, trimCompletion(s) does not break out of the
\* enclosing scope: no prefix of the result has more closing "}" and ")"
\* than opening "{" and "(".
TrimCompletionStaysInScope ==
    HelperReturned("trimCompletion") => StaysInScope(output[1])

\* trimCompletion returned the part before a bracket that closes the
\* enclosing scope, with a bracket pair of its own.
TrimCompletionStaysInScopeWitness ==
    /\ HelperReturned("trimCompletion")
    /\ ~StaysInScope(input.code)
    /\ output[1] # <<>>
    /\ CountOf(output[1], Len(output[1]), {"}", ")"}) > 0
====
